---- MODULE Spec2Model ----
(***************************************************************************)
(* LUNA (luna-rs): the realtime sender (client::run), its echo reader      *)
(* (client::echo_log), the echo server (server::Server, CloseHandle) and   *)
(* the Client/Server handles of the luna-py bindings, as one state         *)
(* machine.  Threads are processes with a program counter; sockets and     *)
(* mpsc channels are state.  System calls the code guards with `?` may     *)
(* fail: a failure is a separate, always possible outcome.                 *)
(***************************************************************************)
EXTENDS Integers, Sequences, FiniteSets, TLC

(***************************************************************************)
(* Program constants                                                       *)
(***************************************************************************)
MIN_SIZE == 21
ECHO_FLAG == 1
U16 == 65536

(***************************************************************************)
(* Bounds of the model                                                     *)
(***************************************************************************)
MaxPkts == 2
MaxInject == 2
MaxCloseCalls == 3
MaxPyCalls == 4
MaxBinds == 2
MaxEintr == 1
MaxClock == 4

(***************************************************************************)
(* Inputs                                                                  *)
(***************************************************************************)
ServerAddr == "server"
ClientAddr == "client"
OtherAddr == "other"

\* buffer_size of client::run
BufferSize == 23
\* sizes a generator may ask for: below MIN_SIZE, and above buffer_size
PktSizes == {MIN_SIZE - 1, BufferSize + 2}

Min(a, b) == IF a < b THEN a ELSE b

(***************************************************************************)
(* u32 sequence numbers, kept as two 16-bit halves                         *)
(***************************************************************************)
U32(i) == [hi |-> (i \div U16) % U16, lo |-> i % U16]

\* U32Inc without the increment
U32Keep(s) == s

U32Inc(s) ==
  IF s.lo + 1 < U16 THEN [s EXCEPT !.lo = s.lo + 1]
  ELSE [hi |-> (s.hi + 1) % U16, lo |-> 0]

\* u32::MAX
U32Max == [hi |-> U16 - 1, lo |-> U16 - 1]

VARIABLES
  cfg,       \* parameters of client::run: [echo, wait, logger]
  chan,      \* the PacketData channel: [q (all values sent), rd (number received), tx, rx]
  emitted,   \* number of PacketData values the generator has produced
  sPc,       \* sender thread: program counter
  seq,       \* sender: seq
  flagByte,  \* sender: buffer[20]
  sent,      \* datagrams the sender has transmitted, in order
  csock,     \* client socket
  erPc,      \* echo reader thread: program counter
  erCount,   \* echo reader: count
  clog,      \* echo log channel: [q (all records published), rx, tx (Receiver, Sender alive)]
  cout,      \* records the echo reader printed to standard output
  injected,  \* number of datagrams peers other than the client and the server have sent
  ssock,     \* server socket
  srvPc,     \* server::Server and the thread in Server::run: program counter
  srvRes,    \* what Server::run returned
  srvLogger, \* Server.logger is Some
  slog,      \* server log channel: [q (all records published), rx, tx (Receiver, Sender alive)]
  sout,      \* records the server printed to standard output
  echoes,    \* echoes the server has sent: [to, len, data]
  handle,    \* CloseHandle: [fd (is Some), lock (holder of the mutex, 0: free), shutdowns, calls]
  closer,    \* threads calling CloseHandle::close: [pc, taken, sres, res] each
  binds,     \* Server::bind calls: [calls, last (result of the last one)]
  snd,       \* client::run: [set, t (the local t), t0, eintr, log (at, target of each sendmsg), err]
  clock,     \* the realtime clock
  psrv,      \* luna-py Server: [handle, running, log (are Some), last, calls, rd, got, nexts, nlast]
  sigs,      \* CLI server: [stack (signals whose handler runs on the main thread, innermost last), delivered]
  gen,       \* Generator::Default: [opts, phase, count, size, delay, i (values sent), got (values the consumer received), eos]
  wire,      \* wire format: [pc, inputs, buffer (send buffer), sent (bytes of the datagram), res (what try_from returned)]
  capst,     \* capabilities of the calling thread: [permitted, effective] and the with_capability call in progress
  starters,  \* luna-py Server::start called from several threads: [pc, res (of each caller), passed, handle, running, log (caller whose value is stored, 0: None), sock (caller whose socket holds the address), alive (server threads)]
  py         \* luna-py Client: [generator, running, log (are Some), last (call, result), calls, open]

cliRest == <<cfg, chan, emitted, sPc, seq, flagByte, sent, erPc, erCount, clog, cout>>
srvRest == <<srvPc, srvRes, srvLogger, slog, sout, echoes, handle, closer>>
vars == <<cliRest, csock, injected, ssock, srvRest, py, starters, capst, wire, gen, sigs, psrv, clock, snd, binds>>

(***************************************************************************)
(* Sockets.  A socket is [state, wr, rd, q, n]: wr and rd say whether it   *)
(* was shut down for writes and for reads, q holds every datagram queued   *)
(* on it so far and n is the number of them already read.  A datagram is   *)
(* [src, len, seq, flags, stamped]: its source address, its length, the    *)
(* sequence field (bytes 0..4), byte 20, and whether the kernel attaches   *)
(* a receive timestamp to it.                                              *)
(***************************************************************************)
NoSocket == [state |-> "none", wr |-> FALSE, rd |-> FALSE, q |-> <<>>, n |-> 0]
OpenSocket == [state |-> "open", wr |-> FALSE, rd |-> FALSE, q |-> <<>>, n |-> 0]

\* The states a socket can be in after datagram d was sent to it: a datagram
\* for a socket that is not open is lost; one for a socket shut down for
\* reads is queued or dropped, as the kernel chooses.
Pending(sock) == sock.n < Len(sock.q)
NextDatagram(sock) == sock.q[sock.n + 1]

Deliver(sock, d) ==
  IF sock.state # "open" THEN {sock}
  ELSE IF sock.rd THEN {sock, [sock EXCEPT !.q = Append(@, d)]}
  ELSE {[sock EXCEPT !.q = Append(@, d)]}

\* the Sender of the echo log channel is alive: client::run holds it until
\* it returns, unless it moved it into the echo thread, which then holds it
\* until echo_log returns
ClogTxAlive == clog.tx

\* the channel after its Sender was dropped
ClogTxDropped == [clog EXCEPT !.tx = FALSE]

\* ReceivedPacket::try_from succeeds
Decodes(d, bytes) == bytes >= MIN_SIZE /\ d.stamped

\* the ReceivedPacket built from datagram d of which `bytes` bytes were read
Record(d, bytes) ==
  [source |-> d.src, size |-> bytes, sequence |-> d.seq, flags |-> d.flags]

(***************************************************************************)
(* A generator thread: sends PacketData values, then drops its Sender.     *)
(***************************************************************************)
GenEmit(sizes, delays) ==
  /\ chan.tx
  /\ emitted < MaxPkts
  /\ \E size \in sizes, delay \in delays :
       chan' = IF chan.rx THEN [chan EXCEPT !.q = Append(@, [delay |-> delay, size |-> size])]
               ELSE chan
  /\ emitted' = emitted + 1
  /\ UNCHANGED <<cfg, sPc, seq, flagByte, sent, csock, erPc, erCount, clog, cout, injected, ssock, srvRest, py, starters, capst, wire, gen, sigs, psrv, clock, snd, binds>>

GenClose ==
  /\ chan.tx
  /\ chan' = [chan EXCEPT !.tx = FALSE]
  /\ UNCHANGED <<cfg, emitted, sPc, seq, flagByte, sent, csock, erPc, erCount, clog, cout, injected, ssock, srvRest, py, starters, capst, wire, gen, sigs, psrv, clock, snd, binds>>

(***************************************************************************)
(* client::run, the sender thread                                          *)
(***************************************************************************)
\* client::run has returned, or its thread has panicked
SenderDone == sPc \in {"ok", "err", "panic"}

\* the locals of client::run before the loop
SndNew == [set |-> FALSE, t |-> 0, t0 |-> 0, eintr |-> 0, log |-> <<>>, err |-> "none"]

\* run returns: sock (an OwnedFd) and receiver are dropped, and so is
\* echo_logger unless it was moved into the echo thread
SenderReturn(res) ==
  /\ sPc' = res
  /\ csock' = IF csock.state = "open" THEN [csock EXCEPT !.state = "closed"] ELSE csock
  /\ chan' = [chan EXCEPT !.rx = FALSE]
  /\ clog' = IF erPc = "none" THEN ClogTxDropped ELSE clog

\* SenderSetup dropping echo_logger as soon as no echo thread takes it
SenderSetupDropLogger ==
  /\ sPc = "setup"
  /\ csock' = OpenSocket
  /\ flagByte' = IF cfg.echo THEN ECHO_FLAG ELSE 0
  /\ erPc' = IF cfg.echo THEN "recv" ELSE "none"
  /\ seq' = U32(0)
  /\ sPc' = "recv"
  /\ clog' = IF cfg.echo THEN clog ELSE ClogTxDropped
  /\ UNCHANGED <<cfg, chan, emitted, sent, erCount, cout, injected, ssock, srvRest, py, starters, capst, wire, gen, sigs, psrv, clock, snd, binds>>

\* socket, setsockopt, connect, the buffer, the echo thread, mlockall, getrusage
SenderSetup ==
  /\ sPc = "setup"
  /\ csock' = OpenSocket
  /\ flagByte' = IF cfg.echo THEN ECHO_FLAG ELSE 0
  /\ erPc' = IF cfg.echo THEN "recv" ELSE "none"
  /\ seq' = U32(0)
  /\ sPc' = "recv"
  /\ UNCHANGED <<cfg, chan, emitted, sent, erCount, clog, cout, injected, ssock, srvRest, py, starters, capst, wire, gen, sigs, psrv, clock, snd, binds>>

\* one of them fails: `?`
SenderSetupFail ==
  /\ sPc = "setup"
  /\ \/ \* socket, setsockopt or connect fails
        /\ SenderReturn("err")
        /\ UNCHANGED <<flagByte, erPc, seq>>
     \/ \* getrusage fails, after the echo thread was spawned
        /\ flagByte' = IF cfg.echo THEN ECHO_FLAG ELSE 0
        /\ erPc' = IF cfg.echo THEN "recv" ELSE "none"
        /\ sPc' = "err"
        /\ csock' = [OpenSocket EXCEPT !.state = "closed"]
        /\ chan' = [chan EXCEPT !.rx = FALSE]
        /\ clog' = IF cfg.echo THEN clog ELSE ClogTxDropped
        /\ UNCHANGED seq
  /\ UNCHANGED <<cfg, emitted, sent, erCount, cout, injected, ssock, srvRest, py, starters, capst, wire, gen, sigs, psrv, clock, snd, binds>>

\* SenderRecv taking every delay from the time of the receive
SenderRecvRelative ==
  /\ sPc = "recv"
  /\ chan.rd < Len(chan.q)
  /\ chan' = [chan EXCEPT !.rd = @ + 1]
  /\ snd' = [snd EXCEPT !.set = TRUE,
                        !.t0 = IF snd.set THEN @ ELSE clock,
                        !.t = clock + chan.q[chan.rd + 1].delay]
  /\ sPc' = "sleep"
  /\ UNCHANGED <<cfg, emitted, seq, flagByte, sent, csock, erPc, erCount, clog, cout, injected, ssock, srvRest, py, starters, capst, wire, gen, sigs, psrv, clock, binds>>

\* receiver.recv() returns the next PacketData: t is the clock's value the
\* first time, and t + next.delay from then on
SenderRecv ==
  /\ sPc = "recv"
  /\ chan.rd < Len(chan.q)
  /\ chan' = [chan EXCEPT !.rd = @ + 1]
  /\ snd' = [snd EXCEPT !.set = TRUE,
                        !.t0 = IF snd.set THEN @ ELSE clock,
                        !.t = (IF snd.set THEN @ ELSE clock) + chan.q[chan.rd + 1].delay]
  /\ sPc' = "sleep"
  /\ UNCHANGED <<cfg, emitted, seq, flagByte, sent, csock, erPc, erCount, clog, cout, injected, ssock, srvRest, py, starters, capst, wire, gen, sigs, psrv, clock, binds>>

\* SenderBreak leaving the loop as soon as every Sender is gone, whatever
\* the channel still holds
SenderBreakAtDisconnect ==
  /\ sPc = "recv"
  /\ ~chan.tx
  /\ sPc' = "shutwr"
  /\ UNCHANGED <<cfg, chan, emitted, seq, flagByte, sent, csock, erPc, erCount, clog, cout, injected, ssock, srvRest, py, starters, capst, wire, gen, sigs, psrv, clock, snd, binds>>

\* receiver.recv() reports that every Sender is gone: break 'send, getrusage
SenderBreak ==
  /\ sPc = "recv"
  /\ chan.rd = Len(chan.q)
  /\ ~chan.tx
  /\ sPc' = "shutwr"
  /\ UNCHANGED <<cfg, chan, emitted, seq, flagByte, sent, csock, erPc, erCount, clog, cout, injected, ssock, srvRest, py, starters, capst, wire, gen, sigs, psrv, clock, snd, binds>>

\* clock_nanosleep(TIMER_ABSTIME, t) returns Ok: the clock has reached t
SenderSleep ==
  /\ sPc = "sleep"
  /\ clock >= snd.t
  /\ sPc' = "send"
  /\ UNCHANGED <<cfg, chan, emitted, seq, flagByte, sent, csock, erPc, erCount, clog, cout, injected, ssock, srvRest, py, starters, capst, wire, gen, sigs, psrv, clock, snd, binds>>

\* clock_nanosleep is interrupted before the clock has reached t: EINTR, and
\* the inner loop calls it again with the same t
SenderSleepEintr ==
  /\ sPc = "sleep"
  /\ clock < snd.t
  /\ snd.eintr < MaxEintr
  /\ snd' = [snd EXCEPT !.eintr = @ + 1]
  /\ UNCHANGED <<cfg, chan, emitted, sPc, seq, flagByte, sent, csock, erPc, erCount, clog, cout, injected, ssock, srvRest, py, starters, capst, wire, gen, sigs, psrv, clock, binds>>

\* Framed without the min(buffer_size, size) of the slice that is sent
FramedUnclamped ==
  [src |-> ClientAddr, len |-> chan.q[chan.rd].size,
   seq |-> seq, flags |-> flagByte, stamped |-> TRUE]

\* the datagram the sender frames for the PacketData it received last
Framed ==
  [src |-> ClientAddr, len |-> Min(BufferSize, chan.q[chan.rd].size),
   seq |-> seq, flags |-> flagByte, stamped |-> TRUE]

\* what `seq += 1` does to a u32: at u32::MAX it panics where the build checks
\* for overflow and wraps where it does not
SeqIncOutcomes(s) == IF s = U32Max THEN {"wrap", "panic"} ELSE {"inc"}

\* clock_gettime, the timestamp, sendmsg, seq += 1
SenderSend ==
  /\ sPc = "send"
  /\ sent' = Append(sent, Framed)
  /\ \E s \in Deliver(ssock, Framed) : ssock' = s
  /\ snd' = [snd EXCEPT !.log = Append(@, [at |-> clock, target |-> snd.t])]
  /\ \E o \in SeqIncOutcomes(seq) :
       IF o = "panic" THEN
         /\ SenderReturn("panic")
         /\ UNCHANGED seq
       ELSE
         /\ seq' = U32Inc(seq)
         /\ sPc' = "recv"
         /\ UNCHANGED <<chan, csock, clog>>
  /\ UNCHANGED <<cfg, emitted, flagByte, erPc, erCount, cout, injected, srvRest, py, starters, capst, wire, gen, sigs, psrv, clock, binds>>

\* socket::shutdown(Write)
SenderShutWr ==
  /\ sPc = "shutwr"
  /\ csock' = [csock EXCEPT !.wr = TRUE]
  /\ sPc' = IF cfg.wait THEN "grace" ELSE "shutrd"
  /\ UNCHANGED <<cfg, chan, emitted, seq, flagByte, sent, erPc, erCount, clog, cout, injected, ssock, srvRest, py, starters, capst, wire, gen, sigs, psrv, clock, snd, binds>>

\* thread::sleep(w)
SenderGrace ==
  /\ sPc = "grace"
  /\ sPc' = "shutrd"
  /\ UNCHANGED <<cfg, chan, emitted, seq, flagByte, sent, csock, erPc, erCount, clog, cout, injected, ssock, srvRest, py, starters, capst, wire, gen, sigs, psrv, clock, snd, binds>>

\* socket::shutdown(Read)
SenderShutRd ==
  /\ sPc = "shutrd"
  /\ csock' = [csock EXCEPT !.rd = TRUE]
  /\ sPc' = "join"
  /\ UNCHANGED <<cfg, chan, emitted, seq, flagByte, sent, erPc, erCount, clog, cout, injected, ssock, srvRest, py, starters, capst, wire, gen, sigs, psrv, clock, snd, binds>>

\* SenderJoin returning without waiting for the echo thread
SenderJoinNoWait ==
  /\ sPc = "join"
  /\ SenderReturn("ok")
  /\ UNCHANGED <<cfg, emitted, seq, flagByte, sent, erPc, erCount, cout, injected, ssock, srvRest, py, starters, capst, wire, gen, sigs, psrv, clock, snd, binds>>

\* SenderJoin handing the echo thread's failure on to the caller of run
SenderJoinPropagates ==
  /\ sPc = "join"
  /\ erPc # "recv"
  /\ SenderReturn(IF erPc \in {"err", "panic"} THEN "err" ELSE "ok")
  /\ UNCHANGED <<cfg, emitted, seq, flagByte, sent, erPc, erCount, cout, injected, ssock, srvRest, py, starters, capst, wire, gen, sigs, psrv, clock, snd, binds>>

\* t.join() on the echo thread, if there is one, and return Ok
SenderJoin ==
  /\ sPc = "join"
  /\ erPc # "recv"
  /\ SenderReturn("ok")
  /\ UNCHANGED <<cfg, emitted, seq, flagByte, sent, erPc, erCount, cout, injected, ssock, srvRest, py, starters, capst, wire, gen, sigs, psrv, clock, snd, binds>>

\* the errors a failing system call of the loop or of the shutdown can
\* report; sendmsg can be interrupted by a signal
SenderErrnos == IF sPc = "send" THEN {"EINTR", "ECONNREFUSED"} ELSE {"EINVAL"}

\* clock_nanosleep (other than EINTR), clock_gettime, sendmsg, getrusage or
\* shutdown fails: `?` or return Err
SenderFail ==
  /\ sPc \in {"sleep", "send", "shutwr", "shutrd"}
  /\ \E e \in SenderErrnos : snd' = [snd EXCEPT !.err = e]
  /\ SenderReturn("err")
  /\ UNCHANGED <<cfg, emitted, seq, flagByte, sent, erPc, erCount, cout, injected, ssock, srvRest, py, starters, capst, wire, gen, sigs, psrv, clock, binds>>

(***************************************************************************)
(* client::echo_log, the echo reader thread                                *)
(***************************************************************************)
\* FromServer accepting every source
FromAnyone(r) == TRUE

\* the record's source is the server the socket is connected to
FromServer(r) == r.source = ServerAddr

\* the loop body after recvmsg returned `bytes` bytes of datagram d
EchoHandle(d, bytes) ==
  IF bytes = 0 THEN
    /\ erPc' = "done"
    /\ clog' = ClogTxDropped
    /\ UNCHANGED <<erCount, cout>>
  ELSE IF Decodes(d, bytes) /\ FromServer(Record(d, bytes)) THEN
    IF cfg.logger THEN
      IF clog.rx THEN
        /\ clog' = [clog EXCEPT !.q = Append(@, Record(d, bytes))]
        /\ erCount' = erCount + 1
        /\ UNCHANGED <<erPc, cout>>
      ELSE
        /\ erPc' = "done"
        /\ clog' = ClogTxDropped
        /\ UNCHANGED <<erCount, cout>>
    ELSE
      /\ cout' = Append(cout, Record(d, bytes))
      /\ erCount' = erCount + 1
      /\ UNCHANGED <<erPc, clog>>
  ELSE
    UNCHANGED <<erPc, erCount, clog, cout>>

\* one pass of the loop: recvmsg returns a datagram, or zero bytes once the
\* socket is shut down for reads and its queue is empty
EchoRecv ==
  /\ erPc = "recv"
  /\ csock.state = "open"
  /\ \/ /\ Pending(csock)
        /\ csock' = [csock EXCEPT !.n = @ + 1]
        /\ EchoHandle(NextDatagram(csock), Min(NextDatagram(csock).len, BufferSize))
     \/ /\ ~Pending(csock)
        /\ csock.rd
        /\ erPc' = "done"
        /\ clog' = ClogTxDropped
        /\ UNCHANGED <<csock, erCount, cout>>
  /\ UNCHANGED <<cfg, chan, emitted, sPc, seq, flagByte, sent, injected, ssock, srvRest, py, starters, capst, wire, gen, sigs, psrv, clock, snd, binds>>

\* recvmsg fails: `?`
EchoFail ==
  /\ erPc = "recv"
  /\ erPc' = "err"
  /\ clog' = ClogTxDropped
  /\ UNCHANGED <<cfg, chan, emitted, sPc, seq, flagByte, sent, csock, erCount, cout, injected, ssock, srvRest, py, starters, capst, wire, gen, sigs, psrv, clock, snd, binds>>

(***************************************************************************)
(* The environment of the client: the network, and the consumer of the     *)
(* echo log channel.                                                       *)
(***************************************************************************)
\* datagrams that reach the client socket from the network
ClientInjectKinds ==
  [src : {ServerAddr, OtherAddr}, len : {0, MIN_SIZE},
   seq : {U32(7)}, flags : {ECHO_FLAG}, stamped : {TRUE}]

NetInjectClient ==
  /\ injected < MaxInject
  /\ csock.state = "open"
  /\ \E d \in ClientInjectKinds : \E s \in Deliver(csock, d) : csock' = s
  /\ injected' = injected + 1
  /\ UNCHANGED <<cfg, chan, emitted, sPc, seq, flagByte, sent, erPc, erCount, clog, cout, ssock, srvRest, py, starters, capst, wire, gen, sigs, psrv, clock, snd, binds>>

\* the consumer drops the Receiver of the echo log channel
ClogDrop ==
  /\ cfg.logger
  /\ clog.rx
  /\ clog' = [clog EXCEPT !.rx = FALSE]
  /\ UNCHANGED <<cfg, chan, emitted, sPc, seq, flagByte, sent, csock, erPc, erCount, cout, injected, ssock, srvRest, py, starters, capst, wire, gen, sigs, psrv, clock, snd, binds>>

(***************************************************************************)
(* server::Server                                                          *)
(***************************************************************************)
\* the datagram the server received last, and the bytes recvmsg read of it
SrvData == ssock.q[ssock.n]
SrvBytes == Min(SrvData.len, BufferSize)

\* EchoRequested without the test of the length
EchoRequestedAnyLength(d, bytes) == (d.flags \div ECHO_FLAG) % 2 = 1

\* r.bytes >= MIN_SIZE && 0 != (data[20] & ECHO_FLAG)
EchoRequested(d, bytes) == bytes >= MIN_SIZE /\ (d.flags \div ECHO_FLAG) % 2 = 1

\* the echo of the datagram received last, as it arrives at its source
EchoDatagram ==
  [src |-> ServerAddr, len |-> SrvBytes, seq |-> SrvData.seq,
   flags |-> SrvData.flags, stamped |-> TRUE]

\* the address in self.bind (after a bind, the effective one) is taken by a
\* socket that is bound to it and not closed: the Server's own self.sock
AddrInUse == ssock.state = "open"

\* Server::bind: socket, setsockopt, bind to self.bind, getsockname into
\* self.bind, CloseHandle::new, self.sock = Some(sock); called on a new
\* Server and on one whose run has returned, and not again once it failed
SrvBind ==
  /\ srvPc \in {"new", "ret"}
  /\ binds.calls < MaxBinds
  /\ binds.last # "EADDRINUSE"
  /\ IF AddrInUse THEN
       \* socket::bind fails: `?` drops the new socket, self.sock is kept
       /\ binds' = [calls |-> binds.calls + 1, last |-> "EADDRINUSE"]
       /\ UNCHANGED <<ssock, handle, srvPc>>
     ELSE
       /\ binds' = [calls |-> binds.calls + 1, last |-> "ok"]
       /\ ssock' = OpenSocket
       /\ handle' = [handle EXCEPT !.fd = TRUE]
       /\ srvPc' = "bound"
  /\ UNCHANGED <<py, starters, capst, wire, gen, sigs, psrv, clock, snd, cliRest, csock, injected, srvRes, srvLogger, slog, sout, echoes, closer>>

\* Server::run up to the receive loop: the privileged steps, caps::clear, getrusage
SrvStart ==
  /\ srvPc = "bound"
  /\ srvPc' = "recv"
  /\ UNCHANGED <<py, starters, capst, wire, gen, sigs, psrv, clock, snd, binds, cliRest, csock, injected, ssock, srvRes, srvLogger, slog, sout, echoes, handle, closer>>

\* one of them fails with an error that is not downgraded: run returns it
SrvStartFail ==
  /\ srvPc = "bound"
  /\ srvPc' = "ret"
  /\ srvRes' = "setup_error"
  /\ UNCHANGED <<py, starters, capst, wire, gen, sigs, psrv, clock, snd, binds, cliRest, csock, injected, ssock, srvLogger, slog, sout, echoes, handle, closer>>

\* recvmsg returns: a datagram, or zero bytes once the socket is shut down
\* for reads and its queue is empty; zero bytes end the loop
SrvRecv ==
  /\ srvPc = "recv"
  /\ \/ /\ Pending(ssock)
        /\ ssock' = [ssock EXCEPT !.n = @ + 1]
        /\ srvPc' = IF Min(NextDatagram(ssock).len, BufferSize) = 0 THEN "post" ELSE "echo"
     \/ /\ ~Pending(ssock)
        /\ ssock.rd
        /\ srvPc' = "post"
        /\ UNCHANGED ssock
  /\ UNCHANGED <<py, starters, capst, wire, gen, sigs, psrv, clock, snd, binds, cliRest, csock, injected, srvRes, srvLogger, slog, sout, echoes, handle, closer>>

\* send echo if requested; sendmsg on a socket shut down for writes fails (EPIPE)
SrvEcho ==
  /\ srvPc = "echo"
  /\ IF EchoRequested(SrvData, SrvBytes) THEN
       IF ssock.wr THEN
         /\ srvPc' = "ret"
         /\ srvRes' = "epipe"
         /\ UNCHANGED <<echoes, csock>>
       ELSE
         /\ echoes' = Append(echoes, [to |-> SrvData.src, len |-> SrvBytes, data |-> SrvData])
         /\ IF SrvData.src = ClientAddr
            THEN \E s \in Deliver(csock, EchoDatagram) : csock' = s
            ELSE UNCHANGED csock
         /\ srvPc' = "log"
         /\ UNCHANGED srvRes
     ELSE
       /\ srvPc' = "log"
       /\ UNCHANGED <<srvRes, echoes, csock>>
  /\ UNCHANGED <<py, starters, capst, wire, gen, sigs, psrv, clock, snd, binds, cliRest, injected, ssock, srvLogger, slog, sout, handle, closer>>

\* ReceivedPacket::try_from, and the record to the logger or to standard output
SrvLog ==
  /\ srvPc = "log"
  /\ IF Decodes(SrvData, SrvBytes) THEN
       IF srvLogger THEN
         IF slog.rx THEN
           /\ slog' = [slog EXCEPT !.q = Append(@, Record(SrvData, SrvBytes))]
           /\ srvPc' = "recv"
           /\ UNCHANGED sout
         ELSE
           /\ srvPc' = "post"
           /\ UNCHANGED <<slog, sout>>
       ELSE
         /\ sout' = Append(sout, Record(SrvData, SrvBytes))
         /\ srvPc' = "recv"
         /\ UNCHANGED slog
     ELSE
       /\ srvPc' = "recv"
       /\ UNCHANGED <<slog, sout>>
  /\ UNCHANGED <<py, starters, capst, wire, gen, sigs, psrv, clock, snd, binds, cliRest, csock, injected, ssock, srvRes, srvLogger, echoes, handle, closer>>

\* after the loop: getrusage, Ok(())
SrvFinish ==
  /\ srvPc = "post"
  /\ srvPc' = "ret"
  /\ srvRes' = "ok"
  /\ UNCHANGED <<py, starters, capst, wire, gen, sigs, psrv, clock, snd, binds, cliRest, csock, injected, ssock, srvLogger, slog, sout, echoes, handle, closer>>

\* recvmsg, sendmsg or getrusage fails for a reason of the system's: `?`
SrvFail ==
  /\ \/ srvPc \in {"recv", "post"}
     \/ srvPc = "echo" /\ EchoRequested(SrvData, SrvBytes)
  /\ srvPc' = "ret"
  /\ srvRes' = CASE srvPc = "recv" -> "recv_error"
                 [] srvPc = "echo" -> "send_error"
                 [] OTHER -> "rusage_error"
  /\ UNCHANGED <<py, starters, capst, wire, gen, sigs, psrv, clock, snd, binds, cliRest, csock, injected, ssock, srvLogger, slog, sout, echoes, handle, closer>>

\* the Server is dropped once run has returned: its socket is closed and
\* its logger, the Sender of the log channel, is gone
SrvDrop ==
  /\ srvPc = "ret"
  /\ srvPc' = "dropped"
  /\ ssock' = [ssock EXCEPT !.state = "closed"]
  /\ slog' = [slog EXCEPT !.tx = FALSE]
  /\ UNCHANGED <<py, starters, capst, wire, gen, sigs, psrv, clock, snd, binds, cliRest, csock, injected, srvRes, srvLogger, sout, echoes, handle, closer>>

(***************************************************************************)
(* server::CloseHandle                                                     *)
(***************************************************************************)
Closers == {1, 2}
IdleCloser == [pc |-> "idle", taken |-> FALSE, sres |-> "none", res |-> "none"]

\* let mut f = self.fd.lock().unwrap()
CloseLock(t) ==
  /\ srvPc # "new"
  /\ closer[t].pc \in {"idle", "done"}
  /\ handle.calls < MaxCloseCalls
  /\ handle.lock = 0
  /\ handle' = [handle EXCEPT !.lock = t, !.calls = @ + 1]
  /\ closer' = [closer EXCEPT ![t] = [IdleCloser EXCEPT !.pc = "locked"]]
  /\ UNCHANGED <<py, starters, capst, wire, gen, sigs, psrv, clock, snd, binds, cliRest, csock, injected, ssock, srvPc, srvRes, srvLogger, slog, sout, echoes>>

\* CloseTake reading the descriptor without taking it out of the Option
CloseTakeKeep(t) ==
  /\ closer[t].pc = "locked"
  /\ closer' = [closer EXCEPT ![t].pc = "taken", ![t].taken = handle.fd]
  /\ UNCHANGED <<py, starters, capst, wire, gen, sigs, psrv, clock, snd, binds, cliRest, csock, injected, ssock, srvPc, srvRes, srvLogger, slog, sout, echoes, handle>>

\* f.take()
CloseTake(t) ==
  /\ closer[t].pc = "locked"
  /\ closer' = [closer EXCEPT ![t].pc = "taken", ![t].taken = handle.fd]
  /\ handle' = [handle EXCEPT !.fd = FALSE]
  /\ UNCHANGED <<py, starters, capst, wire, gen, sigs, psrv, clock, snd, binds, cliRest, csock, injected, ssock, srvPc, srvRes, srvLogger, slog, sout, echoes>>

\* what shutdown(fd, Both) can return: on a datagram socket that was never
\* connected it takes effect and reports ENOTCONN or success; on a
\* descriptor that is closed it fails
ShutdownResults == IF ssock.state = "open" THEN {"ok", "ENOTCONN"} ELSE {"EBADF"}

\* close's result for the result of shutdown
CloseResult(sres) == IF sres \in {"ok", "ENOTCONN"} THEN "ok" ELSE "err"

\* the match: None => Ok, Some(fd) => shutdown(fd, Both); the guard is released
CloseShutdown(t) ==
  /\ closer[t].pc = "taken"
  /\ IF closer[t].taken THEN
       /\ \E sres \in ShutdownResults :
            closer' = [closer EXCEPT ![t].pc = "done", ![t].sres = sres,
                                     ![t].res = CloseResult(sres)]
       /\ ssock' = IF ssock.state = "open"
                   THEN [ssock EXCEPT !.wr = TRUE, !.rd = TRUE] ELSE ssock
       /\ handle' = [handle EXCEPT !.lock = 0, !.shutdowns = @ + 1]
     ELSE
       /\ closer' = [closer EXCEPT ![t].pc = "done", ![t].res = "ok"]
       /\ handle' = [handle EXCEPT !.lock = 0]
       /\ UNCHANGED ssock
  /\ UNCHANGED <<py, starters, capst, wire, gen, sigs, psrv, clock, snd, binds, cliRest, csock, injected, srvPc, srvRes, srvLogger, slog, sout, echoes>>

(***************************************************************************)
(* The environment of the server: peers, and the consumer of its log       *)
(***************************************************************************)
\* datagrams peers send to the server: empty, too short (flags standing for
\* what byte 20 of the buffer still holds), minimal with and without the
\* echo bit, and longer than the buffer without a receive timestamp
ServerInjectKinds ==
  { [src |-> OtherAddr, len |-> 0, seq |-> U32(0), flags |-> 0, stamped |-> TRUE],
    [src |-> OtherAddr, len |-> MIN_SIZE - 1, seq |-> U32(0), flags |-> 1, stamped |-> TRUE],
    [src |-> OtherAddr, len |-> MIN_SIZE, seq |-> U32(5), flags |-> 1, stamped |-> TRUE],
    [src |-> OtherAddr, len |-> MIN_SIZE, seq |-> U32(6), flags |-> 2, stamped |-> TRUE],
    [src |-> OtherAddr, len |-> BufferSize + 2, seq |-> U32(7), flags |-> 3, stamped |-> FALSE] }

NetInjectServer ==
  /\ injected < MaxInject
  /\ ssock.state = "open"
  /\ \E d \in ServerInjectKinds : \E s \in Deliver(ssock, d) : ssock' = s
  /\ injected' = injected + 1
  /\ UNCHANGED <<py, cliRest, csock, srvRest, py, starters, capst, wire, gen, sigs, psrv, clock, snd, binds>>

\* the consumer drops the Receiver of the server's log channel
SlogDrop ==
  /\ srvLogger
  /\ slog.rx
  /\ slog' = [slog EXCEPT !.rx = FALSE]
  /\ UNCHANGED <<py, starters, capst, wire, gen, sigs, psrv, clock, snd, binds, cliRest, csock, injected, ssock, srvPc, srvRes, srvLogger, sout, echoes, handle, closer>>

(***************************************************************************)
(* Initial states                                                          *)
(***************************************************************************)
\* no client
ClientAbsent ==
  /\ cfg = [echo |-> FALSE, wait |-> FALSE, logger |-> FALSE]
  /\ chan = [q |-> <<>>, rd |-> 0, tx |-> FALSE, rx |-> FALSE]
  /\ emitted = 0
  /\ sPc = "idle"
  /\ seq = U32(0)
  /\ flagByte = 0
  /\ sent = <<>>
  /\ csock = NoSocket
  /\ erPc = "none"
  /\ erCount = 0
  /\ clog = [q |-> <<>>, rx |-> FALSE, tx |-> FALSE]
  /\ cout = <<>>

\* luna-py Client::new; `open` records what the caller has asked for: a
\* start() succeeded and close() was not called since
PyNew ==
  [generator |-> "none", running |-> FALSE, log |-> FALSE,
   last |-> [call |-> "new", result |-> "ok"], calls |-> 0, open |-> FALSE,
   rd |-> 0, got |-> <<>>, nexts |-> 0, nlast |-> "none", made |-> TRUE]

\* the program made no Client
PyNone == [PyNew EXCEPT !.made = FALSE]

\* no Generator::Default was run
GenNone == [phase |-> "none"]

\* no signal was delivered
NoSignals == [stack |-> <<>>, delivered |-> 0]

\* no buffer is being written or decoded
WireNone == [pc |-> "none"]

\* no thread is making capability calls
CapsNone == [pc |-> "none"]

\* no thread is calling start
StartersNone == [pc |-> <<>>]

\* luna-py Server::new
PySrvNew ==
  [handle |-> FALSE, running |-> FALSE, log |-> FALSE,
   last |-> [call |-> "new", result |-> "ok"], calls |-> 0,
   rd |-> 0, got |-> <<>>, nexts |-> 0, nlast |-> "none", made |-> TRUE]

\* the program made no Server
PySrvNone == [PySrvNew EXCEPT !.made = FALSE]

\* Server::new
ServerNew ==
  /\ binds = [calls |-> 0, last |-> "none"]
  /\ ssock = NoSocket
  /\ srvPc = "new"
  /\ srvRes = "none"
  /\ slog = [q |-> <<>>, rx |-> srvLogger, tx |-> srvLogger]
  /\ sout = <<>>
  /\ echoes = <<>>
  /\ handle = [fd |-> FALSE, lock |-> 0, shutdowns |-> 0, calls |-> 0]
  /\ closer = [t \in Closers |-> IdleCloser]

(***************************************************************************)
(* SpecClient: client::run with a generator, against the network           *)
(***************************************************************************)
InitClient ==
  /\ snd = SndNew
  /\ clock = 0
  /\ py = PyNew
  /\ psrv = PySrvNew
  /\ sigs = NoSignals
  /\ starters = StartersNone
  /\ wire = WireNone
  /\ capst = CapsNone
  /\ gen = GenNone
  /\ cfg \in [echo : BOOLEAN, wait : BOOLEAN, logger : BOOLEAN]
  /\ chan = [q |-> <<>>, rd |-> 0, tx |-> TRUE, rx |-> TRUE]
  /\ emitted = 0
  /\ sPc = "setup"
  /\ seq = U32(0)
  /\ flagByte = 0
  /\ sent = <<>>
  /\ csock = NoSocket
  /\ erPc = "none"
  /\ erCount = 0
  /\ clog = [q |-> <<>>, rx |-> TRUE, tx |-> cfg.logger]
  /\ cout = <<>>
  /\ injected = 0
  /\ srvLogger = FALSE
  /\ ServerNew

NextClient ==
  \/ GenEmit(PktSizes, {0}) \/ GenClose
  \/ SenderSetup \/ SenderSetupFail \/ SenderRecv \/ SenderBreak \/ SenderSleep \/ SenderSend
  \/ SenderShutWr \/ SenderGrace \/ SenderShutRd \/ SenderJoin \/ SenderFail
  \/ EchoRecv \/ EchoFail
  \/ NetInjectClient \/ ClogDrop

SpecClient == InitClient /\ [][NextClient]_vars

(***************************************************************************)
(* SpecServer: Server::bind and Server::run with peers, and threads that   *)
(* call CloseHandle::close                                                 *)
(***************************************************************************)
InitServer ==
  /\ snd = SndNew
  /\ clock = 0
  /\ py = PyNew
  /\ psrv = PySrvNew
  /\ sigs = NoSignals
  /\ starters = StartersNone
  /\ wire = WireNone
  /\ capst = CapsNone
  /\ gen = GenNone
  /\ ClientAbsent
  /\ injected = 0
  /\ srvLogger \in BOOLEAN
  /\ ServerNew

NextServer ==
  \/ SrvBind \/ SrvStart \/ SrvStartFail \/ SrvRecv \/ SrvEcho \/ SrvLog \/ SrvFinish \/ SrvFail \/ SrvDrop
  \/ \E t \in Closers : CloseLock(t) \/ CloseTake(t) \/ CloseShutdown(t)
  \/ NetInjectServer \/ SlogDrop

SpecServer == InitServer /\ [][NextServer]_vars

(***************************************************************************)
(* SpecE2E: tests::full.  A bound server, a generator, client::run with    *)
(* echo, over a network that loses and reorders nothing; no system call    *)
(* fails.  The test closes the server once it has read every echo record   *)
(* and found the echo log channel closed.                                  *)
(***************************************************************************)
\* sizes a generator may ask for that are at least MIN_SIZE
ValidSizes == {MIN_SIZE, BufferSize + 2}

InitE2E ==
  /\ snd = SndNew
  /\ clock = 0
  /\ py = PyNew
  /\ psrv = PySrvNew
  /\ sigs = NoSignals
  /\ starters = StartersNone
  /\ wire = WireNone
  /\ capst = CapsNone
  /\ gen = GenNone
  /\ binds = [calls |-> 1, last |-> "ok"]
  /\ cfg \in [echo : {TRUE}, wait : BOOLEAN, logger : {TRUE}]
  /\ chan = [q |-> <<>>, rd |-> 0, tx |-> TRUE, rx |-> TRUE]
  /\ emitted = 0
  /\ sPc = "setup"
  /\ seq = U32(0)
  /\ flagByte = 0
  /\ sent = <<>>
  /\ csock = NoSocket
  /\ erPc = "none"
  /\ erCount = 0
  /\ clog = [q |-> <<>>, rx |-> TRUE, tx |-> cfg.logger]
  /\ cout = <<>>
  /\ injected = 0
  /\ srvLogger = TRUE
  /\ ssock = OpenSocket
  /\ srvPc = "bound"
  /\ srvRes = "none"
  /\ slog = [q |-> <<>>, rx |-> TRUE, tx |-> TRUE]
  /\ sout = <<>>
  /\ echoes = <<>>
  /\ handle = [fd |-> TRUE, lock |-> 0, shutdowns |-> 0, calls |-> 0]
  /\ closer = [t \in Closers |-> IdleCloser]

GeneratorStep == GenEmit(ValidSizes, {0}) \/ GenClose

SenderStep ==
  \/ SenderSetup \/ SenderRecv \/ SenderBreak \/ SenderSleep \/ SenderSend
  \/ SenderShutWr \/ SenderGrace \/ SenderShutRd \/ SenderJoin

ServerStep == SrvStart \/ SrvRecv \/ SrvEcho \/ SrvLog \/ SrvFinish \/ SrvDrop

\* the test's main thread: N echo records, then RecvError, then close()
TestStep ==
  \/ /\ ~chan.tx
     /\ Len(clog.q) = Len(chan.q)
     /\ ~ClogTxAlive
     /\ handle.calls = 0
     /\ CloseLock(1)
  \/ CloseTake(1)
  \/ CloseShutdown(1)

NextE2E == GeneratorStep \/ SenderStep \/ EchoRecv \/ ServerStep \/ TestStep

\* every thread that can take a step is scheduled
FairSpecE2E ==
  /\ InitE2E
  /\ [][NextE2E]_vars
  /\ WF_vars(GeneratorStep)
  /\ WF_vars(SenderStep)
  /\ WF_vars(EchoRecv)
  /\ WF_vars(ServerStep)
  /\ WF_vars(TestStep)

(***************************************************************************)
(* FairSpecEchoFail: client::run with echo=true where the echo reader may  *)
(* fail at any point and no system call of the sender fails.               *)
(***************************************************************************)
\* println! in the echo reader panics when standard output cannot be written
EchoPanic ==
  /\ erPc = "recv"
  /\ ~cfg.logger
  /\ erPc' = "panic"
  /\ UNCHANGED <<cfg, chan, emitted, sPc, seq, flagByte, sent, csock, erCount, clog, cout, injected, ssock, srvRest, py, starters, capst, wire, gen, sigs, psrv, clock, snd, binds>>

InitEchoFail == InitClient /\ cfg.echo

EchoFailGenerator == GenEmit(ValidSizes, {0}) \/ GenClose

EchoFailSender ==
  \/ SenderSetup \/ SenderRecv \/ SenderBreak \/ SenderSleep \/ SenderSend
  \/ SenderShutWr \/ SenderGrace \/ SenderShutRd \/ SenderJoin

NextEchoFail ==
  \/ EchoFailGenerator \/ EchoFailSender
  \/ EchoRecv \/ EchoFail \/ EchoPanic

FairSpecEchoFail ==
  /\ InitEchoFail
  /\ [][NextEchoFail]_vars
  /\ WF_vars(EchoFailGenerator)
  /\ WF_vars(EchoFailSender)

(***************************************************************************)
(* luna-py: the Client class.  Each method is one step: the methods lock   *)
(* the fields they use.                                                    *)
(***************************************************************************)
\* sizes a caller passes to put
PutSizes == {MIN_SIZE - 1, MIN_SIZE, BufferSize + 1}

\* the handle after a method returned `result`
PyAfter(call, result, h) ==
  [h EXCEPT !.last = [call |-> call, result |-> result], !.calls = @ + 1]

\* the Sender in `generator` is dropped: if it is the one of the channel
\* client::run reads, that channel has no Sender left
DropGenerator == IF py.generator = "live" THEN [chan EXCEPT !.tx = FALSE] ELSE chan

\* Client::start: a new channel's Sender replaces `generator` first; then,
\* if `running` is Some, the method returns the error and the new Receiver is
\* dropped with it; otherwise client::run starts in a new thread
PyStart ==
  /\ py.made
  /\ py.calls < MaxPyCalls
  /\ IF py.running THEN
       /\ py' = PyAfter("start", "already running", [py EXCEPT !.generator = "orphan"])
       /\ chan' = DropGenerator
       /\ UNCHANGED <<emitted, sPc, sent, csock, erPc, erCount, clog, snd>>
     ELSE
       /\ py' = PyAfter("start", "ok",
                        [py EXCEPT !.generator = "live", !.running = TRUE,
                                   !.log = TRUE, !.open = TRUE,
                                   !.rd = 0, !.got = <<>>])
       /\ chan' = [q |-> <<>>, rd |-> 0, tx |-> TRUE, rx |-> TRUE]
       /\ clog' = [q |-> <<>>, rx |-> TRUE, tx |-> TRUE]
       /\ sPc' = "setup"
       /\ csock' = NoSocket
       /\ erPc' = "none"
       /\ sent' = <<>>
       /\ erCount' = 0
       /\ emitted' = 0
       /\ snd' = SndNew
  /\ UNCHANGED <<gen, wire, starters, capst, sigs, psrv, cfg, seq, flagByte, cout, injected, ssock, srvRest, binds, clock>>

\* the size checks of Client::put
PutSizeError(size) ==
  IF size > BufferSize THEN "size too large"
  ELSE IF size < MIN_SIZE THEN "size smaller than minimum"
  ELSE "none"

\* Client::put: the size checks, then send through `generator` if it is
\* Some, ignoring a failure of send
PyPut ==
  /\ py.made
  /\ py.calls < MaxPyCalls
  /\ \E size \in PutSizes :
       IF PutSizeError(size) # "none" THEN
         /\ py' = PyAfter("put", PutSizeError(size), py)
         /\ UNCHANGED chan
       ELSE IF py.generator = "none" THEN
         /\ py' = PyAfter("put", "client is not running", py)
         /\ UNCHANGED chan
       ELSE
         /\ py' = PyAfter("put", "ok", py)
         /\ chan' = IF py.generator = "live" /\ chan.rx
                    THEN [chan EXCEPT !.q = Append(@, [delay |-> 0, size |-> size])]
                    ELSE chan
  /\ UNCHANGED <<gen, wire, starters, capst, sigs, psrv, cfg, emitted, sPc, seq, flagByte, sent, csock, erPc, erCount, clog, cout, injected, ssock, srvRest, binds, clock, snd>>

\* Client::close: generator.take()
PyClose ==
  /\ py.made
  /\ py.calls < MaxPyCalls
  /\ py' = PyAfter("close", "ok", [py EXCEPT !.generator = "none", !.open = FALSE])
  /\ chan' = DropGenerator
  /\ UNCHANGED <<gen, wire, starters, capst, sigs, psrv, cfg, emitted, sPc, seq, flagByte, sent, csock, erPc, erCount, clog, cout, injected, ssock, srvRest, binds, clock, snd>>

\* Client::running (the getter): a thread was stored and has not finished
PyRunningGetter == py.running /\ ~SenderDone

\* Client::join: running.take(), and wait for the thread if there is one
PyJoin ==
  /\ py.made
  /\ py.calls < MaxPyCalls
  /\ py.running => SenderDone
  /\ py' = PyAfter("join", "ok", [py EXCEPT !.running = FALSE])
  /\ UNCHANGED <<gen, wire, starters, capst, sigs, psrv, cliRest, csock, injected, ssock, srvRest, binds, clock, snd>>

(***************************************************************************)
(* SpecPyClient: a luna-py Client and the thread it starts; no system call *)
(* fails and no server answers.                                            *)
(***************************************************************************)
InitPyClient ==
  /\ snd = SndNew
  /\ clock = 0
  /\ py = PyNew
  /\ psrv = PySrvNone
  /\ sigs = NoSignals
  /\ starters = StartersNone
  /\ wire = WireNone
  /\ capst = CapsNone
  /\ gen = GenNone
  /\ cfg \in [echo : BOOLEAN, wait : {FALSE}, logger : {TRUE}]
  /\ chan = [q |-> <<>>, rd |-> 0, tx |-> FALSE, rx |-> FALSE]
  /\ emitted = 0
  /\ sPc = "idle"
  /\ seq = U32(0)
  /\ flagByte = 0
  /\ sent = <<>>
  /\ csock = NoSocket
  /\ erPc = "none"
  /\ erCount = 0
  /\ clog = [q |-> <<>>, rx |-> FALSE, tx |-> FALSE]
  /\ cout = <<>>
  /\ injected = 0
  /\ srvLogger = FALSE
  /\ ServerNew

NextPyClient ==
  \/ PyStart \/ PyPut \/ PyClose \/ PyJoin
  \/ SenderSetup \/ SenderRecv \/ SenderBreak \/ SenderSleep \/ SenderSend
  \/ SenderShutWr \/ SenderShutRd \/ SenderJoin
  \/ EchoRecv

SpecPyClient == InitPyClient /\ [][NextPyClient]_vars

(***************************************************************************)
(* FairSpecPyDrain: the luna-py Client and its thread, where the system    *)
(* calls of the sender and of the echo reader may fail.  A thread that     *)
(* can take a step is scheduled.                                           *)
(***************************************************************************)
PySenderStep ==
  \/ SenderSetup \/ SenderRecv \/ SenderBreak \/ SenderSleep \/ SenderSend
  \/ SenderShutWr \/ SenderShutRd \/ SenderJoin

NextPyDrain ==
  \/ PyStart \/ PyPut \/ PyClose \/ PyJoin
  \/ PySenderStep \/ SenderFail
  \/ EchoRecv \/ EchoFail

FairSpecPyDrain ==
  /\ InitPyClient
  /\ [][NextPyDrain]_vars
  /\ WF_vars(PySenderStep)
  /\ WF_vars(EchoRecv)

(***************************************************************************)
(* Iteration over a handle's log: __iter__ returns the handle, __next__    *)
(* takes one record from the Receiver in `log`.                            *)
(***************************************************************************)
MaxNexts == 3

\* Receiver::recv ending as soon as the Sender is gone
LogRecvEndsAtDisconnect(q, rd, tx) ==
  IF ~tx THEN "end" ELSE IF rd < Len(q) THEN "record" ELSE "block"

\* Receiver::recv with rd values already taken: the next value in the queue,
\* RecvError once the queue is drained and no Sender is left, blocked otherwise
LogRecv(q, rd, tx) ==
  IF rd < Len(q) THEN "record" ELSE IF tx THEN "block" ELSE "end"

\* guard.as_ref().map(|r| r.recv()).unwrap_or(Err(RecvError)): None when the
\* result is an error
HandleNext(log, q, rd, tx) == IF log THEN LogRecv(q, rd, tx) ELSE "end"

\* the handle after __next__ returned
AfterNext(h, r, q) ==
  [h EXCEPT !.nexts = @ + 1, !.nlast = r,
            !.rd = IF r = "record" THEN @ + 1 ELSE @,
            !.got = IF r = "record" THEN Append(@, q[h.rd + 1]) ELSE @]

\* Client::__next__; the call returns when recv does
PyNext ==
  /\ py.made
  /\ py.nexts < MaxNexts
  /\ HandleNext(py.log, clog.q, py.rd, clog.tx) # "block"
  /\ py' = AfterNext(py, HandleNext(py.log, clog.q, py.rd, clog.tx), clog.q)
  /\ UNCHANGED <<gen, wire, starters, capst, sigs, psrv, cliRest, csock, injected, ssock, srvRest, binds, clock, snd>>

(***************************************************************************)
(* A luna-py Client that is started, closed, joined and iterated while     *)
(* datagrams arrive; nothing is put.                                       *)
(***************************************************************************)
NextPyIter ==
  \/ PyStart \/ PyClose \/ PyJoin \/ PyNext
  \/ SenderSetup \/ SenderBreak \/ SenderShutWr \/ SenderShutRd \/ SenderJoin
  \/ EchoRecv \/ NetInjectClient


(***************************************************************************)
(* The luna-py Server: each start makes a Server with a logger, binds it   *)
(* and runs it in a new thread.                                            *)
(***************************************************************************)
\* Server::start: Err(EISCONN) while `running` is Some; otherwise a new
\* channel, Server::new, srv.bind()?, the thread, and the CloseHandle, the
\* JoinHandle and the Receiver are stored
PySrvStart ==
  /\ psrv.made
  /\ psrv.calls < MaxPyCalls
  /\ IF psrv.running THEN
       /\ psrv' = PyAfter("start", "EISCONN", psrv)
       /\ UNCHANGED <<ssock, srvPc, srvRes, slog, handle, binds>>
     ELSE
       \/ \* bind fails: the new Server and the new channel are dropped
          /\ psrv' = PyAfter("start", "bind_error", psrv)
          /\ binds' = [calls |-> binds.calls + 1, last |-> "error"]
          /\ UNCHANGED <<ssock, srvPc, srvRes, slog, handle>>
       \/ /\ ~AddrInUse
          /\ psrv' = PyAfter("start", "ok",
                             [psrv EXCEPT !.handle = TRUE, !.running = TRUE, !.log = TRUE,
                                          !.rd = 0, !.got = <<>>])
          /\ binds' = [calls |-> binds.calls + 1, last |-> "ok"]
          /\ ssock' = OpenSocket
          /\ handle' = [fd |-> TRUE, lock |-> 0, shutdowns |-> 0, calls |-> 0]
          /\ slog' = [q |-> <<>>, rx |-> TRUE, tx |-> TRUE]
          /\ srvPc' = "bound"
          /\ srvRes' = "none"
  /\ UNCHANGED <<py, starters, capst, wire, gen, sigs, clock, snd, cliRest, csock, injected, srvLogger, sout, echoes, closer>>

\* Server::stop: handle.take(), and CloseHandle::close on what was taken
PySrvStop ==
  /\ psrv.made
  /\ psrv.calls < MaxPyCalls
  /\ IF psrv.handle THEN
       /\ \E sres \in ShutdownResults :
            psrv' = PyAfter("stop", CloseResult(sres), [psrv EXCEPT !.handle = FALSE])
       /\ ssock' = IF ssock.state = "open"
                   THEN [ssock EXCEPT !.wr = TRUE, !.rd = TRUE] ELSE ssock
       /\ handle' = [handle EXCEPT !.fd = FALSE, !.shutdowns = @ + 1, !.calls = @ + 1]
     ELSE
       /\ psrv' = PyAfter("stop", "ok", psrv)
       /\ UNCHANGED <<ssock, handle>>
  /\ UNCHANGED <<py, starters, capst, wire, gen, sigs, clock, snd, binds, cliRest, csock, injected, srvPc, srvRes, srvLogger, slog, sout, echoes, closer>>

\* Server::join: running.take(), and wait for the thread if there is one;
\* the thread has finished when its closure, which owns the Server, is over
PySrvJoin ==
  /\ psrv.made
  /\ psrv.calls < MaxPyCalls
  /\ psrv.running => srvPc = "dropped"
  /\ psrv' = PyAfter("join", "ok", [psrv EXCEPT !.running = FALSE])
  /\ UNCHANGED <<py, starters, capst, wire, gen, sigs, clock, snd, binds, cliRest, csock, injected, ssock, srvRest>>

\* Server::__next__; the call returns when recv does
PySrvNext ==
  /\ psrv.made
  /\ psrv.nexts < MaxNexts
  /\ HandleNext(psrv.log, slog.q, psrv.rd, slog.tx) # "block"
  /\ psrv' = AfterNext(psrv, HandleNext(psrv.log, slog.q, psrv.rd, slog.tx), slog.q)
  /\ UNCHANGED <<py, starters, capst, wire, gen, sigs, clock, snd, binds, cliRest, csock, injected, ssock, srvRest>>

(***************************************************************************)
(* SpecPyServer: a luna-py Server that is started, stopped, joined and     *)
(* iterated while peers send datagrams to it; no system call of the server *)
(* thread fails for a reason of the system's.                              *)
(***************************************************************************)
InitPyServer ==
  /\ snd = SndNew
  /\ clock = 0
  /\ py = PyNone
  /\ psrv = PySrvNew
  /\ sigs = NoSignals
  /\ starters = StartersNone
  /\ wire = WireNone
  /\ capst = CapsNone
  /\ gen = GenNone
  /\ ClientAbsent
  /\ injected = 0
  /\ srvLogger = TRUE
  /\ binds = [calls |-> 0, last |-> "none"]
  /\ ssock = NoSocket
  /\ srvPc = "new"
  /\ srvRes = "none"
  /\ slog = [q |-> <<>>, rx |-> FALSE, tx |-> FALSE]
  /\ sout = <<>>
  /\ echoes = <<>>
  /\ handle = [fd |-> FALSE, lock |-> 0, shutdowns |-> 0, calls |-> 0]
  /\ closer = [t \in Closers |-> IdleCloser]

NextPyServer ==
  \/ PySrvStart \/ PySrvStop \/ PySrvJoin \/ PySrvNext
  \/ SrvStart \/ SrvRecv \/ SrvEcho \/ SrvLog \/ SrvFinish \/ SrvDrop
  \/ NetInjectServer

SpecPyServer == InitPyServer /\ [][NextPyServer]_vars

(***************************************************************************)
(* SpecPyIter: a program that makes one handle, a Client or a Server, and  *)
(* calls its methods and iterates over it.                                 *)
(***************************************************************************)
InitPyIter == InitPyClient \/ InitPyServer

SpecPyIter == InitPyIter /\ [][NextPyIter \/ NextPyServer]_vars

(***************************************************************************)
(* SpecCli: the server of the command line.  main binds the server, stores *)
(* the CloseHandle in SERVER_CLOSE, installs handle_shutdown_sig for       *)
(* SIGINT and SIGTERM and calls srv.run() on the only thread; a handler    *)
(* runs on that thread, on top of what it interrupted, and a signal is     *)
(* blocked while its own handler runs.  closer[k] is the call of           *)
(* CloseHandle::close made by the k-th handler of the stack.               *)
(***************************************************************************)
MaxSigs == 2

Signals == {"SIGINT", "SIGTERM"}

\* the signals whose handler is running
Handling == {sigs.stack[k] : k \in 1..Len(sigs.stack)}

\* the innermost handler, 0 when the main program runs
Top == Len(sigs.stack)

\* the kernel delivers a signal that is not blocked to the process
SigDeliver ==
  /\ srvPc \in {"bound", "recv", "echo", "log", "post", "ret"}
  /\ sigs.delivered < MaxSigs
  /\ \E s \in Signals \ Handling :
       sigs' = [stack |-> Append(sigs.stack, s), delivered |-> sigs.delivered + 1]
  /\ closer' = [closer EXCEPT ![Top + 1] = IdleCloser]
  /\ UNCHANGED <<py, starters, capst, wire, gen, psrv, clock, snd, binds, cliRest, csock, injected, ssock, srvPc, srvRes, srvLogger, slog, sout, echoes, handle>>

\* handle_shutdown_sig: SERVER_CLOSE.get().map(|h| h.close()), step by step
SigCloseLock ==
  /\ Top > 0
  /\ closer[Top].pc = "idle"
  /\ CloseLock(Top)

SigCloseTake ==
  /\ Top > 0
  /\ CloseTake(Top)

SigCloseShutdown ==
  /\ Top > 0
  /\ CloseShutdown(Top)

\* self.fd.lock() on the thread that holds the mutex never returns: the
\* thread blocks for good (no step), or the lock panics, which in an
\* extern "C" function aborts the process
SigRelockAbort ==
  /\ Top > 0
  /\ closer[Top].pc = "idle"
  /\ handle.lock # 0
  /\ srvPc' = "aborted"
  /\ srvRes' = "abort"
  /\ UNCHANGED <<py, starters, capst, wire, gen, sigs, psrv, clock, snd, binds, cliRest, csock, injected, ssock, srvLogger, slog, sout, echoes, handle, closer>>

\* the handler returns, the result of close is discarded, and what it
\* interrupted goes on
SigReturn ==
  /\ Top > 0
  /\ closer[Top].pc = "done"
  /\ sigs' = [sigs EXCEPT !.stack = SubSeq(@, 1, Top - 1)]
  /\ UNCHANGED <<py, starters, capst, wire, gen, psrv, clock, snd, binds, cliRest, csock, injected, ssock, srvRest>>

\* srv.run()? on the main thread, which moves only while no handler runs
CliStart == Top = 0 /\ SrvStart
CliRecv == Top = 0 /\ SrvRecv
CliEcho == Top = 0 /\ SrvEcho
CliLog == Top = 0 /\ SrvLog
CliFinish == Top = 0 /\ SrvFinish

\* main returns what run returned, and the process ends
CliExit == Top = 0 /\ SrvDrop

\* the exit code of the process: 0 for Ok(()), 1 for an Err returned by main
ExitCode == IF srvRes = "ok" THEN 0 ELSE 1

InitCli ==
  /\ snd = SndNew
  /\ clock = 0
  /\ py = PyNone
  /\ psrv = PySrvNone
  /\ sigs = NoSignals
  /\ starters = StartersNone
  /\ wire = WireNone
  /\ capst = CapsNone
  /\ gen = GenNone
  /\ ClientAbsent
  /\ injected = 0
  /\ srvLogger = FALSE
  /\ binds = [calls |-> 1, last |-> "ok"]
  /\ ssock = OpenSocket
  /\ srvPc = "bound"
  /\ srvRes = "none"
  /\ slog = [q |-> <<>>, rx |-> FALSE, tx |-> FALSE]
  /\ sout = <<>>
  /\ echoes = <<>>
  /\ handle = [fd |-> TRUE, lock |-> 0, shutdowns |-> 0, calls |-> 0]
  /\ closer = [t \in Closers |-> IdleCloser]

NextCli ==
  \/ CliStart \/ CliRecv \/ CliEcho \/ CliLog \/ CliFinish \/ CliExit
  \/ SigDeliver \/ SigCloseLock \/ SigCloseTake \/ SigCloseShutdown \/ SigReturn
  \/ SigRelockAbort
  \/ NetInjectServer

SpecCli == InitCli /\ [][NextCli]_vars

(***************************************************************************)
(* SpecGenerator: Generator::Default.run(options), the thread it spawns    *)
(* and a consumer of the channel.  An option is [some, v]; the interval    *)
(* options are [keys (the keys present), num (the value of msec, usec or   *)
(* nsec), str (the value of interval: the digits before and after the      *)
(* point)].                                                                *)
(***************************************************************************)
MaxCount == 2

DefaultCount == 10
DefaultDelayNsec == 500000000
NsecPerSec == 1000000000

Absent == [some |-> FALSE, v |-> 0]
Given(x) == [some |-> TRUE, v |-> x]

\* parse_or_default!
ParseOrDefault(opt, default) == IF opt.some THEN opt.v ELSE default

\* str::parse of a string of decimal digits
RECURSIVE ParseDec(_)
ParseDec(ds) ==
  IF ds = <<>> THEN 0 ELSE ParseDec(SubSeq(ds, 1, Len(ds) - 1)) * 10 + ds[Len(ds)]

\* the fraction filled with zeros on the wrong side
PadLeft(ds) == IF Len(ds) < 9 THEN [k \in 1..(9 - Len(ds)) |-> 0] \o ds ELSE ds

\* format!("{:0<9}", v.1): zeros are added on the right up to a width of 9
PadRight(ds) == IF Len(ds) < 9 THEN ds \o [k \in 1..(9 - Len(ds)) |-> 0] ELSE ds

\* a character of an option's value: 0..9 are the digits, 10 stands for a
\* letter and 11 for the minus sign
IsDigit(c) == c \in 0..9
IsMinus(c) == c = 11

\* what str::parse::<i64> accepts: digits, after a sign or not
IsInteger(cs) ==
  /\ cs # <<>>
  /\ IF IsMinus(cs[1])
     THEN Len(cs) > 1 /\ \A k \in 2..Len(cs) : IsDigit(cs[k])
     ELSE \A k \in 1..Len(cs) : IsDigit(cs[k])

\* str::parse::<i64> of a string it accepts
ParseInt(cs) == IF IsMinus(cs[1]) THEN 0 - ParseDec(Tail(cs)) ELSE ParseDec(cs)

\* the whole string instead of its first nine bytes
TakeAll(cs) == cs

\* t.1[..9]
Take9(cs) == SubSeq(cs, 1, 9)

\* the two strings parse_timespec parses: an empty integer part is "0", the
\* fraction is filled and cut to nine characters
SecString(str) == IF str.int = <<>> THEN <<0>> ELSE str.int
NsecString(str) == Take9(PadRight(str.frac))

\* parse_timespec returns Ok
ParseTimespecOk(str) == IsInteger(SecString(str)) /\ IsInteger(NsecString(str))

\* parse_timespec: the TimeSpec of an Ok
ParseTimespec(str) ==
  [sec |-> ParseInt(SecString(str)), nsec |-> ParseInt(NsecString(str))]

\* Duration::from_millis, from_micros, from_nanos, and TimeSpec::from(Duration)
FromMillis(m) == [sec |-> m \div 1000, nsec |-> (m % 1000) * 1000000]
FromMicros(u) == [sec |-> u \div 1000000, nsec |-> (u % 1000000) * 1000]
FromNanos(n) == [sec |-> n \div NsecPerSec, nsec |-> n % NsecPerSec]

IntervalKeys == {"interval", "msec", "usec", "nsec"}

\* parse_interval taking the first of several keys
ParseIntervalFirstKey(iv) ==
  IF iv.keys = {} THEN [ok |-> TRUE, some |-> FALSE, t |-> [sec |-> 0, nsec |-> 0]]
  ELSE [ok |-> TRUE, some |-> TRUE,
        t |-> CASE "interval" \in iv.keys -> ParseTimespec(iv.str)
                [] "msec" \in iv.keys -> FromMillis(iv.num)
                [] "usec" \in iv.keys -> FromMicros(iv.num)
                [] OTHER -> FromNanos(iv.num)]

\* parse_interval: None without a key, an error with more than one
ParseInterval(iv) ==
  IF iv.keys = {} THEN [ok |-> TRUE, some |-> FALSE, t |-> [sec |-> 0, nsec |-> 0]]
  ELSE IF Cardinality(iv.keys) > 1 THEN [ok |-> FALSE, some |-> FALSE, t |-> [sec |-> 0, nsec |-> 0]]
  ELSE IF iv.keys = {"interval"} /\ ~ParseTimespecOk(iv.str)
       THEN [ok |-> FALSE, some |-> FALSE, t |-> [sec |-> 0, nsec |-> 0]]
  ELSE [ok |-> TRUE, some |-> TRUE,
        t |-> CASE iv.keys = {"msec"} -> FromMillis(iv.num)
                [] iv.keys = {"usec"} -> FromMicros(iv.num)
                [] iv.keys = {"nsec"} -> FromNanos(iv.num)
                [] OTHER -> ParseTimespec(iv.str)]

\* the options the generator is run with
NoStr == [int |-> <<>>, frac |-> <<>>]
IntervalStrings ==
  { [int |-> <<0>>, frac |-> <<2>>],
    [int |-> <<1>>, frac |-> <<>>],
    [int |-> <<>>, frac |-> <<5>>],
    [int |-> <<0>>, frac |-> <<0, 0, 1>>],
    [int |-> <<1>>, frac |-> <<0, 0, 0, 0, 0, 0, 0, 0, 1>>],
    [int |-> <<0>>, frac |-> <<0, 0, 0, 0, 0, 0, 0, 0, 1, 9>>] }
IntervalOptions ==
  {[keys |-> {}, num |-> 0, str |-> NoStr]}
  \cup {[keys |-> {"interval"}, num |-> 0, str |-> x] : x \in IntervalStrings}
  \cup {[keys |-> {"msec"}, num |-> n, str |-> NoStr] : n \in {0, 1, 200, 1500}}
  \cup {[keys |-> {"usec"}, num |-> n, str |-> NoStr] : n \in {1, 1000, 1500000}}
  \cup {[keys |-> {"nsec"}, num |-> n, str |-> NoStr] : n \in {1, 1500000000}}
  \cup {[keys |-> k, num |-> 200, str |-> [int |-> <<0>>, frac |-> <<2>>]] :
          k \in {x \in SUBSET IntervalKeys : Cardinality(x) > 1}}
GeneratorOptions ==
  [count : {Absent} \cup {Given(c) : c \in 0..MaxCount},
   size : {Absent, Given(MIN_SIZE + 11)},
   interval : IntervalOptions]

\* Generator::run with Generator::Default: the channel, the options, the
\* thread; an invalid option returns the error and drops the channel
GenRun ==
  /\ gen.phase = "new"
  /\ IF ParseInterval(gen.opts.interval).ok THEN
       /\ gen' = [gen EXCEPT !.phase = "running",
                             !.count = ParseOrDefault(gen.opts.count, DefaultCount),
                             !.size = ParseOrDefault(gen.opts.size, MIN_SIZE),
                             !.delay = IF ParseInterval(gen.opts.interval).some
                                       THEN ParseInterval(gen.opts.interval).t
                                       ELSE [sec |-> 0, nsec |-> DefaultDelayNsec]]
       /\ chan' = [q |-> <<>>, rd |-> 0, tx |-> TRUE, rx |-> TRUE]
     ELSE
       /\ gen' = [gen EXCEPT !.phase = "error"]
       /\ UNCHANGED chan
  /\ UNCHANGED <<cfg, emitted, sPc, seq, flagByte, sent, erPc, erCount, clog, cout, csock, injected, ssock, srvRest, py, starters, capst, wire, sigs, psrv, clock, snd, binds>>

\* for _ in 0..count { target.send(PacketData { delay, size }).unwrap() }:
\* one send; it fails, and the thread panics, when the Receiver is gone
GenDefaultSend ==
  /\ gen.phase = "running"
  /\ gen.i < gen.count
  /\ IF chan.rx THEN
       /\ chan' = [chan EXCEPT !.q = Append(@, [delay |-> gen.delay, size |-> gen.size])]
       /\ gen' = [gen EXCEPT !.i = @ + 1]
     ELSE
       /\ chan' = [chan EXCEPT !.tx = FALSE]
       /\ gen' = [gen EXCEPT !.phase = "panicked"]
  /\ UNCHANGED <<cfg, emitted, sPc, seq, flagByte, sent, erPc, erCount, clog, cout, csock, injected, ssock, srvRest, py, starters, capst, wire, sigs, psrv, clock, snd, binds>>

\* the loop is over, the closure returns and `target` is dropped
GenDefaultEnd ==
  /\ gen.phase = "running"
  /\ gen.i >= gen.count
  /\ chan' = [chan EXCEPT !.tx = FALSE]
  /\ gen' = [gen EXCEPT !.phase = "done"]
  /\ UNCHANGED <<cfg, emitted, sPc, seq, flagByte, sent, erPc, erCount, clog, cout, csock, injected, ssock, srvRest, py, starters, capst, wire, sigs, psrv, clock, snd, binds>>

\* the consumer calls receiver.recv(), until it is told the end
GenConsumerRecv ==
  /\ gen.phase \in {"running", "done"}
  /\ chan.rx
  /\ ~gen.eos
  /\ LogRecv(chan.q, chan.rd, chan.tx) # "block"
  /\ IF LogRecv(chan.q, chan.rd, chan.tx) = "record" THEN
       /\ chan' = [chan EXCEPT !.rd = @ + 1]
       /\ gen' = [gen EXCEPT !.got = Append(@, chan.q[chan.rd + 1])]
     ELSE
       /\ gen' = [gen EXCEPT !.eos = TRUE]
       /\ UNCHANGED chan
  /\ UNCHANGED <<cfg, emitted, sPc, seq, flagByte, sent, erPc, erCount, clog, cout, csock, injected, ssock, srvRest, py, starters, capst, wire, sigs, psrv, clock, snd, binds>>

\* the consumer drops the Receiver
GenConsumerDrop ==
  /\ gen.phase \in {"running", "done"}
  /\ chan.rx
  /\ chan' = [chan EXCEPT !.rx = FALSE]
  /\ UNCHANGED <<gen, cfg, emitted, sPc, seq, flagByte, sent, erPc, erCount, clog, cout, csock, injected, ssock, srvRest, py, starters, capst, wire, sigs, psrv, clock, snd, binds>>

InitGenerator ==
  /\ snd = SndNew
  /\ clock = 0
  /\ py = PyNone
  /\ psrv = PySrvNone
  /\ sigs = NoSignals
  /\ starters = StartersNone
  /\ wire = WireNone
  /\ capst = CapsNone
  /\ ClientAbsent
  /\ injected = 0
  /\ srvLogger = FALSE
  /\ ServerNew
  /\ \E o \in GeneratorOptions :
       gen = [phase |-> "new", opts |-> o, count |-> 0, size |-> 0,
              delay |-> [sec |-> 0, nsec |-> 0], i |-> 0, got |-> <<>>, eos |-> FALSE]

NextGenerator ==
  \/ GenRun \/ GenDefaultSend \/ GenDefaultEnd
  \/ GenConsumerRecv \/ GenConsumerDrop

SpecGenerator == InitGenerator /\ [][NextGenerator]_vars

(***************************************************************************)
(* SpecTimespec: parse_timespec applied to a string.  The string is        *)
(* [int (the characters before the first point, or all of them), dot (a    *)
(* point is present), frac (the characters after it)].                     *)
(***************************************************************************)
IntegerParts ==
  {<<>>, <<0>>, <<1>>, <<1, 2>>, <<11, 1>>, <<11>>, <<10>>, <<10, 10>>, <<1, 10>>}
FractionParts ==
  {<<>>, <<2>>, <<0, 2>>, <<0, 0, 2>>, <<0, 0, 0, 0, 0, 0, 0, 0, 6>>,
   <<0, 0, 0, 0, 0, 0, 0, 0, 0, 6>>, <<1, 2, 3, 4, 5, 6, 7, 8, 9>>,
   <<1, 2, 3, 4, 5, 6, 7, 8, 9, 1>>, <<10>>, <<0, 0, 0, 0, 0, 0, 0, 0, 0, 10>>}
TimespecInputs ==
  {[int |-> i, dot |-> FALSE, frac |-> <<>>] : i \in IntegerParts}
  \cup {[int |-> i, dot |-> TRUE, frac |-> f] : i \in IntegerParts, f \in FractionParts}

\* value.split_once('.').or(Some((value, "")))
SplitOnce(inp) == [int |-> inp.int, frac |-> IF inp.dot THEN inp.frac ELSE <<>>]

\* parse_timespec(value)
TimespecParse ==
  /\ gen.phase = "new"
  /\ gen' = [gen EXCEPT !.phase = "parsed",
                        !.res = IF ParseTimespecOk(SplitOnce(gen.inp))
                                THEN [ok |-> TRUE, t |-> ParseTimespec(SplitOnce(gen.inp))]
                                ELSE [ok |-> FALSE, t |-> [sec |-> 0, nsec |-> 0]]]
  /\ UNCHANGED <<chan, cfg, emitted, sPc, seq, flagByte, sent, erPc, erCount, clog, cout, csock, injected, ssock, srvRest, py, starters, capst, wire, sigs, psrv, clock, snd, binds>>

InitTimespec ==
  /\ snd = SndNew
  /\ clock = 0
  /\ py = PyNone
  /\ psrv = PySrvNone
  /\ sigs = NoSignals
  /\ starters = StartersNone
  /\ wire = WireNone
  /\ capst = CapsNone
  /\ ClientAbsent
  /\ injected = 0
  /\ srvLogger = FALSE
  /\ ServerNew
  /\ \E x \in TimespecInputs :
       gen = [phase |-> "new", inp |-> x, res |-> [ok |-> FALSE, t |-> [sec |-> 0, nsec |-> 0]]]

SpecTimespec == InitTimespec /\ [][TimespecParse]_vars

(***************************************************************************)
(* SpecWire: the bytes of one datagram, from the sender's buffer to the    *)
(* ReceivedPacket.  A u32 is [hi, lo], an i64 is its four 16-bit words,    *)
(* the most significant first; time_t and c_long are 64 bits wide, which   *)
(* is the target where MIN_SIZE is 21.                                     *)
(***************************************************************************)
Zeros(n) == [k \in 1..n |-> 0]

\* buf.splice(from..to, bytes)
Splice(buf, from, to, bytes) == SubSeq(buf, 1, from) \o bytes \o SubSeq(buf, to + 1, Len(buf))

WordBytes(w) == <<w \div 256, w % 256>>

\* the least significant byte first
U32ToLeBytes(s) == <<s.lo % 256, s.lo \div 256, s.hi % 256, s.hi \div 256>>

\* u32::to_be_bytes
U32ToBeBytes(s) == WordBytes(s.hi) \o WordBytes(s.lo)

\* i64::to_be_bytes
I64ToBeBytes(w) == WordBytes(w[1]) \o WordBytes(w[2]) \o WordBytes(w[3]) \o WordBytes(w[4])

\* parse_int!(data, u32): the value of the first four bytes
U32FromBeBytes(b) == [hi |-> b[1] * 256 + b[2], lo |-> b[3] * 256 + b[4]]

\* parse_int!(data, i64): the value of the first eight bytes
I64FromBeBytes(b) == [k \in 1..4 |-> b[2 * k - 1] * 256 + b[2 * k]]

\* ReceivedPacket::try_from(r), r = [data, bytes, addr, cmsg]
TryFrom(r) ==
  IF r.bytes < MIN_SIZE THEN [ok |-> FALSE, err |-> "packet too small"]
  ELSE IF ~r.addr THEN [ok |-> FALSE, err |-> "no source address"]
  ELSE IF ~r.cmsg THEN [ok |-> FALSE, err |-> "no receive time data"]
  ELSE [ok |-> TRUE,
        pkt |-> [size |-> r.bytes,
                 sequence |-> U32FromBeBytes(SubSeq(r.data, 1, 4)),
                 sec |-> I64FromBeBytes(SubSeq(r.data, 5, 12)),
                 nsec |-> I64FromBeBytes(SubSeq(r.data, 13, 20)),
                 flags |-> r.data[21]]]

WireSeqs == {U32(0), U32(1), U32(258), [hi |-> 1, lo |-> 2], U32Max}
WireSecs == {<<0, 0, 0, 0>>, <<0, 0, 26000, 513>>, <<1, 2, 3, 4>>, <<65535, 65535, 65535, 65535>>}
WireNsecs == {<<0, 0, 0, 0>>, <<0, 0, 15258, 51711>>, <<0, 0, 1, 2>>}
WireBufferSizes == {20, 21, 30}
WireSizes == {10, 21, 25, 40}
WireRecvSizes == {22, 1500}

\* client::run: the buffer is allocated; buffer[20] panics on a shorter one
WireAlloc ==
  /\ wire.pc = "new"
  /\ IF wire.echo /\ wire.bufferSize <= 20
     THEN wire' = [wire EXCEPT !.pc = "panic"]
     ELSE wire' = [wire EXCEPT !.pc = "allocated",
                               !.buffer = IF wire.echo
                                          THEN [Zeros(wire.bufferSize) EXCEPT ![21] = ECHO_FLAG]
                                          ELSE Zeros(wire.bufferSize)]
  /\ UNCHANGED <<cliRest, csock, injected, ssock, srvRest, py, starters, capst, gen, sigs, psrv, clock, snd, binds>>

\* client::run: buffer.splice(0..4, seq.to_be_bytes())
WireSeq ==
  /\ wire.pc = "allocated"
  /\ wire' = [wire EXCEPT !.pc = "numbered",
                          !.buffer = Splice(wire.buffer, 0, 4, U32ToBeBytes(wire.seq))]
  /\ UNCHANGED <<cliRest, csock, injected, ssock, srvRest, py, starters, capst, gen, sigs, psrv, clock, snd, binds>>

\* client::run: the current time is written to the packet
WireStamp ==
  /\ wire.pc = "numbered"
  /\ wire' = [wire EXCEPT !.pc = "stamped",
                          !.buffer = Splice(Splice(wire.buffer, 4, 12, I64ToBeBytes(wire.sec)),
                                            12, 20, I64ToBeBytes(wire.nsec))]
  /\ UNCHANGED <<cliRest, csock, injected, ssock, srvRest, py, starters, capst, gen, sigs, psrv, clock, snd, binds>>

\* client::run: sendmsg of &buffer[..buffer_size.min(next.size)]
WireSend ==
  /\ wire.pc = "stamped"
  /\ wire' = [wire EXCEPT !.pc = "sent",
                          !.sent = SubSeq(wire.buffer, 1, Min(wire.bufferSize, wire.size))]
  /\ UNCHANGED <<cliRest, csock, injected, ssock, srvRest, py, starters, capst, gen, sigs, psrv, clock, snd, binds>>

\* recvmsg into a buffer of recvSize bytes: a longer datagram is cut
WireRecv ==
  /\ wire.pc = "sent"
  /\ wire' = [wire EXCEPT !.pc = "received",
                          !.r = [data |-> SubSeq(wire.sent, 1, Min(Len(wire.sent), wire.recvSize)),
                                 bytes |-> Min(Len(wire.sent), wire.recvSize),
                                 addr |-> wire.addr, cmsg |-> wire.cmsg]]
  /\ UNCHANGED <<cliRest, csock, injected, ssock, srvRest, py, starters, capst, gen, sigs, psrv, clock, snd, binds>>

\* ReceivedPacket::try_from
WireTryFrom ==
  /\ wire.pc = "received"
  /\ wire' = [wire EXCEPT !.pc = "decoded", !.res = TryFrom(wire.r)]
  /\ UNCHANGED <<cliRest, csock, injected, ssock, srvRest, py, starters, capst, gen, sigs, psrv, clock, snd, binds>>

InitWire ==
  /\ snd = SndNew
  /\ clock = 0
  /\ py = PyNone
  /\ psrv = PySrvNone
  /\ sigs = NoSignals
  /\ starters = StartersNone
  /\ capst = CapsNone
  /\ gen = GenNone
  /\ ClientAbsent
  /\ injected = 0
  /\ srvLogger = FALSE
  /\ ServerNew
  /\ \E sq \in WireSeqs, sc \in WireSecs, ns \in WireNsecs, e \in BOOLEAN,
        bs \in WireBufferSizes, sz \in WireSizes, rs \in WireRecvSizes, ad \in BOOLEAN, cm \in BOOLEAN :
       wire = [pc |-> "new", seq |-> sq, sec |-> sc, nsec |-> ns, echo |-> e,
               bufferSize |-> bs, size |-> sz, recvSize |-> rs, addr |-> ad, cmsg |-> cm,
               buffer |-> <<>>, sent |-> <<>>,
               r |-> [data |-> <<>>, bytes |-> 0, addr |-> FALSE, cmsg |-> FALSE],
               res |-> [ok |-> FALSE, err |-> "none"]]

NextWire == WireAlloc \/ WireSeq \/ WireStamp \/ WireSend \/ WireRecv \/ WireTryFrom

SpecWire == InitWire /\ [][NextWire]_vars

(***************************************************************************)
(* SpecPriv: the privileged steps of Server::run, each a with_capability   *)
(* call under accept_noperm, on the thread that called run.  An error is   *)
(* [type, kind]: type is the Rust type in the Box ("io" std::io::Error,    *)
(* "errno" nix Errno, "caps" CapsError), kind tells a permission error     *)
(* from the others.  Every capability call and every action may fail.      *)
(***************************************************************************)
Capabilities == {"CAP_SYS_NICE", "CAP_IPC_LOCK"}

PrivSteps ==
  <<[cap |-> "CAP_SYS_NICE", func |-> "set_rt_prio"],
    [cap |-> "CAP_IPC_LOCK", func |-> "mlockall"]>>

\* the error type of the action: set_rt_prio returns std::io::Error,
\* mman::mlockall returns nix::errno::Errno
FuncErrorType(func) == IF func = "set_rt_prio" THEN "io" ELSE "errno"

FuncResults(func) ==
  {[ok |-> TRUE],
   [ok |-> FALSE, type |-> FuncErrorType(func), kind |-> "PermissionDenied"],
   [ok |-> FALSE, type |-> FuncErrorType(func), kind |-> "Other"]}

CapsError == [ok |-> FALSE, type |-> "caps", kind |-> "Other"]
NotPermitted == [ok |-> FALSE, type |-> "io", kind |-> "PermissionDenied"]

\* the capability stays in the set
CapKept(set, cap) == set

\* caps::drop(None, CapSet::Effective, cap)
CapDropped(set, cap) == set \ {cap}

PrivCap == PrivSteps[capst.step].cap
PrivFunc == PrivSteps[capst.step].func

\* Server::run reaches a privileged step: with_capability is called
PrivCall ==
  /\ srvPc = "bound"
  /\ capst.pc = "idle"
  /\ capst' = [capst EXCEPT !.pc = "has_cap", !.eff0 = capst.effective, !.runs = 0,
                            !.failed = "none", !.ret = [ok |-> TRUE], !.out = [ok |-> TRUE]]
  /\ UNCHANGED <<cliRest, csock, injected, ssock, srvRest, py, starters, wire, gen, sigs, psrv, clock, snd, binds>>

\* with_capability: caps::has_cap(None, CapSet::Permitted, cap)?
WcHasCap ==
  /\ capst.pc = "has_cap"
  /\ \/ capst' = [capst EXCEPT !.pc = "returned", !.failed = "has_cap", !.out = CapsError]
     \/ /\ PrivCap \in capst.permitted
        /\ capst' = [capst EXCEPT !.pc = "raise"]
     \/ /\ PrivCap \notin capst.permitted
        /\ capst' = [capst EXCEPT !.pc = "returned", !.out = NotPermitted]
  /\ UNCHANGED <<cliRest, csock, injected, ssock, srvRest, py, starters, wire, gen, sigs, psrv, clock, snd, binds>>

\* with_capability: caps::raise(None, CapSet::Effective, cap)?
WcRaise ==
  /\ capst.pc = "raise"
  /\ \/ capst' = [capst EXCEPT !.pc = "returned", !.failed = "raise", !.out = CapsError]
     \/ capst' = [capst EXCEPT !.pc = "func", !.effective = @ \cup {PrivCap}]
  /\ UNCHANGED <<cliRest, csock, injected, ssock, srvRest, py, starters, wire, gen, sigs, psrv, clock, snd, binds>>

\* with_capability: let ret = func()
WcFunc ==
  /\ capst.pc = "func"
  /\ \E r \in FuncResults(PrivFunc) :
       capst' = [capst EXCEPT !.pc = "drop", !.runs = @ + 1, !.ret = r]
  /\ UNCHANGED <<cliRest, csock, injected, ssock, srvRest, py, starters, wire, gen, sigs, psrv, clock, snd, binds>>

\* with_capability: caps::drop(None, CapSet::Effective, cap)?, then ret is returned
WcDrop ==
  /\ capst.pc = "drop"
  /\ \/ capst' = [capst EXCEPT !.pc = "returned", !.failed = "drop", !.out = CapsError]
     \/ capst' = [capst EXCEPT !.pc = "returned", !.out = capst.ret,
                               !.effective = CapDropped(capst.effective, PrivCap)]
  /\ UNCHANGED <<cliRest, csock, injected, ssock, srvRest, py, starters, wire, gen, sigs, psrv, clock, snd, binds>>

\* e.downcast::<Error>() is Ok and its kind is PermissionDenied
Downgraded(e) == e.type = "io" /\ e.kind = "PermissionDenied"

\* accept_noperm!: a permission error of type std::io::Error is printed as
\* a warning, every other error is returned by run
PrivAccept ==
  /\ srvPc = "bound"
  /\ capst.pc = "returned"
  /\ IF capst.out.ok \/ Downgraded(capst.out)
     THEN /\ capst' = [capst EXCEPT !.pc = IF capst.step = Len(PrivSteps) THEN "clear" ELSE "idle",
                                    !.step = IF capst.step = Len(PrivSteps) THEN @ ELSE @ + 1,
                                    !.outs = Append(@, capst.out),
                                    !.warned = IF capst.out.ok THEN @ ELSE @ \cup {capst.step}]
          /\ UNCHANGED <<srvPc, srvRes>>
     ELSE /\ capst' = [capst EXCEPT !.pc = "left", !.outs = Append(@, capst.out),
                                    !.rejected = capst.step]
          /\ srvPc' = "ret"
          /\ srvRes' = "setup_error"
  /\ UNCHANGED <<cliRest, csock, injected, ssock, srvLogger, slog, sout, echoes, handle, closer, py, starters, wire, gen, sigs, psrv, clock, snd, binds>>

\* caps::clear(None, CapSet::Effective)?; caps::clear(None, CapSet::Permitted)?;
\* getrusage()?: the receive loop is entered
PrivClear ==
  /\ srvPc = "bound"
  /\ capst.pc = "clear"
  /\ \/ /\ capst' = [capst EXCEPT !.pc = "left"]
        /\ srvPc' = "ret"
        /\ srvRes' = "setup_error"
     \/ /\ capst' = [capst EXCEPT !.pc = "left", !.effective = {}]
        /\ srvPc' = "ret"
        /\ srvRes' = "setup_error"
     \/ /\ capst' = [capst EXCEPT !.pc = "left", !.effective = {}, !.permitted = {}]
        /\ srvPc' = "recv"
        /\ UNCHANGED srvRes
  /\ UNCHANGED <<cliRest, csock, injected, ssock, srvLogger, slog, sout, echoes, handle, closer, py, starters, wire, gen, sigs, psrv, clock, snd, binds>>

InitPriv ==
  /\ snd = SndNew
  /\ clock = 0
  /\ py = PyNone
  /\ psrv = PySrvNone
  /\ sigs = NoSignals
  /\ starters = StartersNone
  /\ wire = WireNone
  /\ gen = GenNone
  /\ ClientAbsent
  /\ injected = 0
  /\ srvLogger \in BOOLEAN
  /\ binds = [calls |-> 1, last |-> "ok"]
  /\ ssock = OpenSocket
  /\ srvPc = "bound"
  /\ srvRes = "none"
  /\ slog = [q |-> <<>>, rx |-> srvLogger, tx |-> srvLogger]
  /\ sout = <<>>
  /\ echoes = <<>>
  /\ handle = [fd |-> TRUE, lock |-> 0, shutdowns |-> 0, calls |-> 0]
  /\ closer = [t \in Closers |-> IdleCloser]
  /\ \E p \in SUBSET Capabilities : \E e \in SUBSET p :
       capst = [pc |-> "idle", step |-> 1, permitted |-> p, effective |-> e, eff0 |-> e,
                runs |-> 0, failed |-> "none", ret |-> [ok |-> TRUE], out |-> [ok |-> TRUE],
                outs |-> <<>>, warned |-> {}, rejected |-> 0]

NextPriv == PrivCall \/ WcHasCap \/ WcRaise \/ WcFunc \/ WcDrop \/ PrivAccept \/ PrivClear

SpecPriv == InitPriv /\ [][NextPriv]_vars

(***************************************************************************)
(* SpecPyStart: Server::start of luna-py called once by each of several    *)
(* Python threads on one Server; allow_threads lets them run together.     *)
(* Each block of start holds one mutex and is one step.  The server        *)
(* thread of caller t owns the socket t has bound; the socket is closed    *)
(* when that thread ends.                                                  *)
(***************************************************************************)
MaxStarters == 2
Starters == 1..MaxStarters

\* match *r { Some(_) => Err(EISCONN), None => () }
RunningNone(st) == st.running = 0

\* the block under the `running` lock: the already-running check
StartCheck(t) ==
  /\ starters.pc[t] = "idle"
  /\ IF RunningNone(starters)
     THEN starters' = [starters EXCEPT !.pc[t] = "bind", !.passed = @ \cup {t}]
     ELSE starters' = [starters EXCEPT !.pc[t] = "ret", !.res[t] = "EISCONN"]
  /\ UNCHANGED <<cliRest, csock, injected, ssock, srvRest, py, capst, wire, gen, sigs, psrv, clock, snd, binds>>

\* the block under the `bind` lock: Server::new, srv.bind()?, the bound
\* address is stored, the server thread is spawned
StartBind(t) ==
  /\ starters.pc[t] = "bind"
  /\ IF starters.sock # 0
     THEN starters' = [starters EXCEPT !.pc[t] = "ret", !.res[t] = "EADDRINUSE"]
     ELSE starters' = [starters EXCEPT !.pc[t] = "handle", !.sock = t,
                                       !.alive = @ \cup {t}, !.spawned = @ \cup {t}]
  /\ UNCHANGED <<cliRest, csock, injected, ssock, srvRest, py, capst, wire, gen, sigs, psrv, clock, snd, binds>>

\* *h = Some(ch)
StartStoreHandle(t) ==
  /\ starters.pc[t] = "handle"
  /\ starters' = [starters EXCEPT !.pc[t] = "running", !.handle = t]
  /\ UNCHANGED <<cliRest, csock, injected, ssock, srvRest, py, capst, wire, gen, sigs, psrv, clock, snd, binds>>

\* *j = Some(jh)
StartStoreRunning(t) ==
  /\ starters.pc[t] = "running"
  /\ starters' = [starters EXCEPT !.pc[t] = "log", !.running = t]
  /\ UNCHANGED <<cliRest, csock, injected, ssock, srvRest, py, capst, wire, gen, sigs, psrv, clock, snd, binds>>

\* *l = Some(logger); Ok(())
StartStoreLog(t) ==
  /\ starters.pc[t] = "log"
  /\ starters' = [starters EXCEPT !.pc[t] = "ret", !.res[t] = "ok", !.log = t]
  /\ UNCHANGED <<cliRest, csock, injected, ssock, srvRest, py, capst, wire, gen, sigs, psrv, clock, snd, binds>>

\* the server thread of caller t ends (Server::run returns): srv is dropped
\* and its socket closed
StartedThreadEnds(t) ==
  /\ t \in starters.alive
  /\ starters' = [starters EXCEPT !.alive = @ \ {t}, !.sock = 0]
  /\ UNCHANGED <<cliRest, csock, injected, ssock, srvRest, py, capst, wire, gen, sigs, psrv, clock, snd, binds>>

InitPyStart ==
  /\ snd = SndNew
  /\ clock = 0
  /\ py = PyNone
  /\ psrv = PySrvNone
  /\ sigs = NoSignals
  /\ capst = CapsNone
  /\ wire = WireNone
  /\ gen = GenNone
  /\ ClientAbsent
  /\ injected = 0
  /\ srvLogger = TRUE
  /\ ServerNew
  /\ starters = [pc |-> [t \in Starters |-> "idle"], res |-> [t \in Starters |-> "none"],
                 passed |-> {}, handle |-> 0, running |-> 0, log |-> 0, sock |-> 0,
                 alive |-> {}, spawned |-> {}]

NextPyStart ==
  \E t \in Starters :
    \/ StartCheck(t) \/ StartBind(t) \/ StartStoreHandle(t) \/ StartStoreRunning(t)
    \/ StartStoreLog(t) \/ StartedThreadEnds(t)

SpecPyStart == InitPyStart /\ [][NextPyStart]_vars

(***************************************************************************)
(* SpecVary: Generator::Vary.run(options), the thread it spawns and a      *)
(* consumer of the channel.                                                *)
(***************************************************************************)
VaryDefaultCount == 20
VaryDefaultDelayNsec == 1000000
VaryDefaultMaxSize == 1452

VaryOptions ==
  [count : {Absent} \cup {Given(c) : c \in 0..MaxCount},
   maxSize : {Absent, Given(10), Given(MIN_SIZE), Given(2 * MIN_SIZE), Given(64 * MIN_SIZE),
              Given(1500), Given(3000)},
   interval : IntervalOptions]

\* Generator::run with Generator::Vary: the channel, the options, the thread
\* with s = MIN_SIZE and grow = true; an invalid option returns the error
VaryRun ==
  /\ gen.phase = "new"
  /\ IF ParseInterval(gen.opts.interval).ok THEN
       /\ gen' = [gen EXCEPT !.phase = "running",
                             !.count = ParseOrDefault(gen.opts.count, VaryDefaultCount),
                             !.delay = IF ParseInterval(gen.opts.interval).some
                                       THEN ParseInterval(gen.opts.interval).t
                                       ELSE [sec |-> 0, nsec |-> VaryDefaultDelayNsec],
                             !.maxSize = ParseOrDefault(gen.opts.maxSize, VaryDefaultMaxSize),
                             !.s = MIN_SIZE,
                             !.grow = TRUE]
       /\ chan' = [q |-> <<>>, rd |-> 0, tx |-> TRUE, rx |-> TRUE]
     ELSE
       /\ gen' = [gen EXCEPT !.phase = "error"]
       /\ UNCHANGED chan
  /\ UNCHANGED <<cfg, emitted, sPc, seq, flagByte, sent, erPc, erCount, clog, cout, csock, injected, ssock, srvRest, py, starters, capst, wire, sigs, psrv, clock, snd, binds>>

\* the step that never turns around at the top
VaryStepUpOnly(g) == [g EXCEPT !.s = g.s * 2, !.grow = TRUE]

\* the body of the loop after the send: s and grow for the next value
VaryStep(g) ==
  IF g.grow
  THEN [g EXCEPT !.s = g.s * 2, !.grow = g.s * 2 < g.maxSize]
  ELSE [g EXCEPT !.s = IF g.s \div 2 > MIN_SIZE THEN g.s \div 2 ELSE MIN_SIZE,
                 !.grow = (IF g.s \div 2 > MIN_SIZE THEN g.s \div 2 ELSE MIN_SIZE) <= MIN_SIZE]

\* one turn of the loop: target.send(PacketData { delay, size: max_size.min(s) })
\* .unwrap(), which panics when the Receiver is gone, then the step
VarySend ==
  /\ gen.phase = "running"
  /\ gen.i < gen.count
  /\ IF chan.rx THEN
       /\ chan' = [chan EXCEPT !.q = Append(@, [delay |-> gen.delay, size |-> Min(gen.maxSize, gen.s)])]
       /\ gen' = [VaryStep(gen) EXCEPT !.i = @ + 1]
     ELSE
       /\ chan' = [chan EXCEPT !.tx = FALSE]
       /\ gen' = [gen EXCEPT !.phase = "panicked"]
  /\ UNCHANGED <<cfg, emitted, sPc, seq, flagByte, sent, erPc, erCount, clog, cout, csock, injected, ssock, srvRest, py, starters, capst, wire, sigs, psrv, clock, snd, binds>>

\* the loop is over, the closure returns and `target` is dropped
VaryEnd ==
  /\ gen.phase = "running"
  /\ gen.i >= gen.count
  /\ chan' = [chan EXCEPT !.tx = FALSE]
  /\ gen' = [gen EXCEPT !.phase = "done"]
  /\ UNCHANGED <<cfg, emitted, sPc, seq, flagByte, sent, erPc, erCount, clog, cout, csock, injected, ssock, srvRest, py, starters, capst, wire, sigs, psrv, clock, snd, binds>>

InitVary ==
  /\ snd = SndNew
  /\ clock = 0
  /\ py = PyNone
  /\ psrv = PySrvNone
  /\ sigs = NoSignals
  /\ starters = StartersNone
  /\ wire = WireNone
  /\ capst = CapsNone
  /\ ClientAbsent
  /\ injected = 0
  /\ srvLogger = FALSE
  /\ ServerNew
  /\ \E o \in VaryOptions :
       gen = [phase |-> "new", opts |-> o, count |-> 0, maxSize |-> 0, s |-> 0, grow |-> FALSE,
              delay |-> [sec |-> 0, nsec |-> 0], i |-> 0, got |-> <<>>, eos |-> FALSE]

NextVary ==
  \/ VaryRun \/ VarySend \/ VaryEnd
  \/ GenConsumerRecv \/ GenConsumerDrop

SpecVary == InitVary /\ [][NextVary]_vars

(***************************************************************************)
(* SpecPacing: client::run under a clock that advances, with delays that   *)
(* are not zero and sleeps that are interrupted or return late.            *)
(***************************************************************************)
\* the realtime clock advances
ClockTick ==
  /\ clock < MaxClock
  /\ clock' = clock + 1
  /\ UNCHANGED <<cliRest, csock, injected, ssock, srvRest, py, starters, capst, wire, gen, sigs, psrv, snd, binds>>

\* delays a generator asks for, in ticks of the clock
PacingDelays == {0, 1, 2}

InitPacing ==
  /\ snd = SndNew
  /\ clock = 0
  /\ py = PyNew
  /\ psrv = PySrvNew
  /\ sigs = NoSignals
  /\ starters = StartersNone
  /\ wire = WireNone
  /\ capst = CapsNone
  /\ gen = GenNone
  /\ cfg = [echo |-> FALSE, wait |-> FALSE, logger |-> FALSE]
  /\ chan = [q |-> <<>>, rd |-> 0, tx |-> TRUE, rx |-> TRUE]
  /\ emitted = 0
  /\ sPc = "setup"
  /\ seq = U32(0)
  /\ flagByte = 0
  /\ sent = <<>>
  /\ csock = NoSocket
  /\ erPc = "none"
  /\ erCount = 0
  /\ clog = [q |-> <<>>, rx |-> FALSE, tx |-> FALSE]
  /\ cout = <<>>
  /\ injected = 0
  /\ srvLogger = FALSE
  /\ ServerNew

NextPacing ==
  \/ GenEmit({MIN_SIZE}, PacingDelays) \/ GenClose
  \/ ClockTick
  \/ SenderSetup \/ SenderRecv \/ SenderBreak \/ SenderSleep \/ SenderSleepEintr
  \/ SenderSend \/ SenderShutWr \/ SenderShutRd \/ SenderJoin

SpecPacing == InitPacing /\ [][NextPacing]_vars

(***************************************************************************)
(* SpecWrap: client::run in its loop after 2^32 - 2 or 2^32 - 1 datagrams, *)
(* with a server that receives them.  `sent` and the channels hold what    *)
(* was sent and queued from this state on.                                 *)
(***************************************************************************)
InitWrap ==
  /\ snd = [SndNew EXCEPT !.set = TRUE]
  /\ clock = 0
  /\ py = PyNew
  /\ psrv = PySrvNew
  /\ sigs = NoSignals
  /\ starters = StartersNone
  /\ wire = WireNone
  /\ capst = CapsNone
  /\ gen = GenNone
  /\ binds = [calls |-> 1, last |-> "ok"]
  /\ cfg \in [echo : BOOLEAN, wait : {FALSE}, logger : {TRUE}]
  /\ chan = [q |-> <<>>, rd |-> 0, tx |-> TRUE, rx |-> TRUE]
  /\ emitted = 0
  /\ sPc = "recv"
  /\ seq \in {[hi |-> U16 - 1, lo |-> U16 - 2], U32Max}
  /\ flagByte = IF cfg.echo THEN ECHO_FLAG ELSE 0
  /\ sent = <<>>
  /\ csock = OpenSocket
  /\ erPc = IF cfg.echo THEN "recv" ELSE "none"
  /\ erCount = 0
  /\ clog = [q |-> <<>>, rx |-> TRUE, tx |-> cfg.logger]
  /\ cout = <<>>
  /\ injected = 0
  /\ srvLogger = TRUE
  /\ ssock = OpenSocket
  /\ srvPc = "recv"
  /\ srvRes = "none"
  /\ slog = [q |-> <<>>, rx |-> TRUE, tx |-> TRUE]
  /\ sout = <<>>
  /\ echoes = <<>>
  /\ handle = [fd |-> TRUE, lock |-> 0, shutdowns |-> 0, calls |-> 0]
  /\ closer = [t \in Closers |-> IdleCloser]

NextWrap ==
  \/ GenEmit({MIN_SIZE}, {0}) \/ GenClose
  \/ SenderRecv \/ SenderBreak \/ SenderSleep \/ SenderSend
  \/ SenderShutWr \/ SenderShutRd \/ SenderJoin
  \/ EchoRecv
  \/ SrvRecv \/ SrvEcho \/ SrvLog

SpecWrap == InitWrap /\ [][NextWrap]_vars

(***************************************************************************)
(* Claims                                                                  *)
(***************************************************************************)
\* the sender is between two PacketData values, or past the loop without an error
SenderBetween == sPc \in {"recv", "shutwr", "grace", "shutrd", "join", "ok"}

\* C1: the datagrams the sender has transmitted are, in order, one for each
\* PacketData it received from the channel: the i-th (from 0) has length
\* min(size_i, buffer_size) and sequence i; no other datagram is sent.  The
\* PacketData received last is the only one that can still be unsent: while
\* the sender sleeps for it or frames it, or after a system call failed.
C1_OneDatagramPerPacketData ==
  /\ Len(sent) <= chan.rd
  /\ chan.rd - Len(sent) <= 1
  /\ SenderBetween => Len(sent) = chan.rd
  /\ \A i \in 1..Len(sent) :
       /\ sent[i].len = Min(chan.q[i].size, BufferSize)
       /\ sent[i].seq = U32(i - 1)

\* C1 witness: the sender returned after two PacketData values, one of them
\* larger than the buffer, one smaller
C1_Witness ==
  /\ sPc = "ok"
  /\ Len(sent) = 2
  /\ chan.q[1].size > BufferSize /\ sent[1].len = BufferSize
  /\ chan.q[2].size < BufferSize /\ sent[2].len = chan.q[2].size
  /\ sent[2].seq = U32(1)

\* C8: every record the echo reader has published, to the channel or to
\* standard output, has the server's address as its source, and count is the
\* number of published records: no other datagram is published or counted.
C8_PublishedFromServerOnly ==
  /\ \A i \in 1..Len(clog.q) : clog.q[i].source = ServerAddr
  /\ \A i \in 1..Len(cout) : cout[i].source = ServerAddr
  /\ erCount = Len(clog.q) + Len(cout)

\* C8 witness: the reader has read a full-size datagram from another source
\* and one from the server, and published one record
C8_Witness ==
  /\ csock.n = 2
  /\ \E i, j \in 1..2 :
       /\ csock.q[i].src = OtherAddr /\ csock.q[i].len >= MIN_SIZE
       /\ csock.q[j].src = ServerAddr /\ csock.q[j].len >= MIN_SIZE
  /\ erCount = 1
  /\ Len(clog.q) + Len(cout) = 1

\* Server::run has returned
SrvReturned == srvPc \in {"ret", "dropped"}

\* what run returns when a system call fails for a reason of the system's
SrvOsErrors == {"setup_error", "recv_error", "send_error", "rusage_error"}

\* C2: the server leaves its receive loop by a break only after close() was
\* called or the consumer of the logger channel was dropped; no datagram a
\* peer sends, of any length, ends the loop.
C2_NoDatagramEndsServer ==
  srvPc = "post" => (handle.calls > 0 \/ (srvLogger /\ ~slog.rx))

\* C3: once close() has shut the socket down, Server::run returns Ok (leaving
\* aside a system call that fails for a reason of the system's), whatever the
\* server was doing when close() ran.
C3_CloseEndsRunOk ==
  (handle.shutdowns > 0 /\ SrvReturned) => srvRes \in {"ok"} \cup SrvOsErrors

\* C4: over all close() calls of all threads, shutdown is issued at most
\* once; a call that finds the descriptor taken returns success and issues
\* nothing; a shutdown that reports ENOTCONN (or success) makes close succeed.
C4_CloseIdempotent ==
  /\ handle.shutdowns <= 1
  /\ \A t \in Closers :
       closer[t].pc = "done" =>
         /\ ~closer[t].taken => (closer[t].res = "ok" /\ closer[t].sres = "none")
         /\ closer[t].sres \in {"ok", "ENOTCONN"} => closer[t].res = "ok"
         /\ closer[t].taken => handle.shutdowns = 1

\* C4 witness: three calls from two threads; one shut the socket down and got
\* ENOTCONN, the other found the descriptor taken
C4_Witness ==
  /\ handle.calls = 3
  /\ handle.shutdowns = 1
  /\ \E t, u \in Closers :
       /\ closer[t].pc = "done" /\ closer[t].taken
       /\ closer[t].sres = "ENOTCONN" /\ closer[t].res = "ok"
       /\ closer[u].pc = "done" /\ ~closer[u].taken /\ closer[u].res = "ok"

\* the datagrams whose echo step the server has completed
EchoStepsDone ==
  IF srvPc = "echo" \/ srvRes \in {"send_error", "epipe"} THEN ssock.n - 1 ELSE ssock.n

\* the echoes due for the first k datagrams the server received: one for each
\* datagram of at least MIN_SIZE received bytes with bit 0 of byte 20 set
RECURSIVE EchoesDue(_)
EchoesDue(k) ==
  IF k = 0 THEN <<>>
  ELSE LET d == ssock.q[k]
           bytes == Min(d.len, BufferSize)
       IN IF bytes >= MIN_SIZE /\ d.flags % 2 = 1
          THEN Append(EchoesDue(k - 1), [to |-> d.src, len |-> bytes, data |-> d])
          ELSE EchoesDue(k - 1)

\* C5: the echoes the server has sent are exactly, in order, one echo of the
\* received bytes to the source of each received datagram that has at least
\* MIN_SIZE bytes and bit 0 of byte 20 set, whether or not it decodes.
C5_EchoIffFlagAndSize ==
  echoes = EchoesDue(EchoStepsDone)

\* C5 witness: the server echoed a datagram that does not decode (no receive
\* timestamp), cut to the buffer size, and sent no echo for a short datagram
\* whose byte 20 has the bit set
C5_Witness ==
  /\ srvPc = "recv"
  /\ ssock.n = 2
  /\ \E i \in 1..2 : ssock.q[i].len < MIN_SIZE /\ ssock.q[i].len > 0 /\ ssock.q[i].flags = 1
  /\ Len(echoes) = 1
  /\ ~echoes[1].data.stamped
  /\ echoes[1].len = BufferSize
  /\ echoes[1].to = OtherAddr
  /\ Len(slog.q) + Len(sout) = 0

\* the record of the i-th datagram of the sender, as the receiver at `source` sees it
RoundTripRecord(i, source) ==
  [source |-> source, size |-> Min(chan.q[i].size, BufferSize),
   sequence |-> U32(i - 1), flags |-> ECHO_FLAG]

\* the records of a log are those of the first datagrams, in order
RoundTripPrefix(log, source) ==
  /\ Len(log) <= Len(chan.q)
  /\ \A i \in 1..Len(log) : log[i] = RoundTripRecord(i, source)

\* the records of a log are those of some of the datagrams, in sending order
RoundTripOrdered(log, source) ==
  \A j \in 1..Len(log) :
    /\ \E i \in 1..Len(chan.q) : log[j] = RoundTripRecord(i, source)
    /\ j > 1 => \/ log[j - 1].sequence.hi < log[j].sequence.hi
                \/ /\ log[j - 1].sequence.hi = log[j].sequence.hi
                   /\ log[j - 1].sequence.lo < log[j].sequence.lo

\* C7 as claimed: when client::run has returned, the echo log channel holds a
\* record for each of the N PacketData values.
C7_AllEchoesLogged ==
  sPc = "ok" => Len(clog.q) = Len(chan.q)

\* C7, amended: the server's log receives the N records with sequences
\* 0..N-1 in order; the echo log receives records of some of the datagrams,
\* in sending order and with the server as source, and all N of them whenever
\* the N echoes are in the client's socket by the time the sender shuts it
\* down for reads; the echo log channel is closed in the end; after close() the
\* server's run returns Ok.
C7_RoundTrip ==
  /\ [](RoundTripPrefix(slog.q, ClientAddr) /\ RoundTripOrdered(clog.q, ServerAddr))
  /\ (~chan.tx) ~> (Len(slog.q) = Len(chan.q))
  /\ (sPc = "shutrd" /\ Len(csock.q) = Len(chan.q))
       ~> (Len(clog.q) = Len(chan.q) /\ ~ClogTxAlive)
  /\ <>(~ClogTxAlive)
  /\ (handle.calls > 0) ~> (SrvReturned /\ srvRes = "ok")

\* C7 witness: two PacketData values, both records in both logs, the echo
\* log channel closed, the server closed and returned
C7_Witness ==
  /\ Len(chan.q) = 2
  /\ Len(slog.q) = 2
  /\ Len(clog.q) = 2
  /\ clog.q[2].sequence = U32(1)
  /\ ~ClogTxAlive
  /\ handle.shutdowns = 1
  /\ SrvReturned /\ srvRes = "ok"

\* C6 as claimed, for runs in which no receive returns zero bytes of an empty
\* datagram: the echo reader exits only after the socket was shut down for
\* reads.
C6_ReaderExitsAfterReadShutdown ==
  (erPc = "done" /\ \A i \in 1..csock.n : csock.q[i].len > 0) => csock.rd

\* C6, amended: the order of the sender's own steps is fixed - it shuts the
\* socket down for writes only after it saw the generator channel closed and
\* drained, sends nothing after that, lets the grace duration (if supplied)
\* elapse, then shuts the socket down for reads, and returns Ok only after the
\* echo reader (if any) has exited; the echo reader may exit at any point
\* before that.
C6_SenderShutdownOrder ==
  /\ [](csock.wr => /\ sPc \in {"grace", "shutrd", "join", "ok", "err"}
                    /\ ~chan.tx /\ chan.rd = Len(chan.q)
                    /\ Len(sent) = Len(chan.q))
  /\ [](csock.rd => csock.wr /\ sPc \in {"join", "ok"})
  /\ [](sPc = "ok" => csock.wr /\ csock.rd /\ erPc # "recv")
  /\ [][csock.wr => sent' = sent]_vars
  /\ [][(sPc # "shutrd" /\ sPc' = "shutrd")
         => IF cfg.wait THEN sPc = "grace" ELSE sPc = "shutwr"]_vars
  /\ [][(sPc # "grace" /\ sPc' = "grace") => csock'.wr]_vars

\* C6 witness: a sender with echo and a grace duration has sent two datagrams,
\* shut the socket down in both directions, joined the echo reader and
\* returned
C6_Witness ==
  /\ cfg.echo /\ cfg.wait
  /\ sPc = "ok"
  /\ erPc = "done"
  /\ Len(sent) = 2
  /\ csock.wr /\ csock.rd

\* C9 as claimed: a start() that returns the already-running error changes
\* nothing - `generator`, `running`, `log`, the channel put() feeds, the log
\* channel and the sender thread are as before.
C9_RejectedStartNoEffect ==
  [][(py'.calls # py.calls /\ py'.last = [call |-> "start", result |-> "already running"])
      => /\ py'.generator = py.generator
         /\ py'.running = py.running
         /\ py'.log = py.log
         /\ chan' = chan
         /\ clog' = clog
         /\ sPc' = sPc]_vars

\* C10 as claimed, first part: a put that returns without an error was made
\* on a client that was started and not closed since.
C10_PutRejectedUnlessOpen ==
  py.last = [call |-> "put", result |-> "ok"] => py.open

\* C10, second part: every PacketData in the channel of the sender came
\* through put with MIN_SIZE <= size <= buffer_size.
C10_ReceivedSizesInRange ==
  \A i \in 1..Len(chan.q) : MIN_SIZE <= chan.q[i].size /\ chan.q[i].size <= BufferSize

\* C11 as claimed: a start() on a client that is closed (or was never started)
\* and whose `running` reports false - the sender thread has terminated -
\* succeeds.
C11_StartSucceedsWhenNotRunning ==
  [][(py'.calls # py.calls /\ py'.last.call = "start" /\ ~py.open /\ ~PyRunningGetter)
      => py'.last.result = "ok"]_vars

\* C12 as claimed: bind() on a Server that was bound, run and stopped through
\* its CloseHandle succeeds: the Server is bound again, with a handle that
\* holds a descriptor.
C12_RebindSucceeds ==
  [][(binds'.calls # binds.calls /\ srvPc = "ret" /\ srvRes = "ok" /\ handle.shutdowns > 0)
      => (binds'.last = "ok" /\ srvPc' = "bound" /\ handle'.fd)]_vars

\* delay_1 + ... + delay_k of the PacketData values the generator has emitted
RECURSIVE SumDelays(_)
SumDelays(k) == IF k = 0 THEN 0 ELSE SumDelays(k - 1) + chan.q[k].delay

\* C13: with t0 the clock's value when the first PacketData was received, the
\* sleep target after the k-th PacketData is t0 plus the k first delays,
\* whenever the earlier datagrams were sent and whether or not the sleep was
\* interrupted; each datagram was sent with that target and not before the
\* clock had reached it.
C13_AbsolutePacing ==
  /\ snd.set => snd.t = snd.t0 + SumDelays(chan.rd)
  /\ sPc = "send" => clock >= snd.t
  /\ Len(snd.log) = Len(sent)
  /\ \A k \in 1..Len(snd.log) :
       /\ snd.log[k].target = snd.t0 + SumDelays(k)
       /\ snd.log[k].at >= snd.log[k].target

\* C13 witness: a sleep was interrupted, the first datagram went out late,
\* and the second was sent at its target, earlier than its delay after the
\* first send
C13_Witness ==
  /\ snd.eintr > 0
  /\ Len(snd.log) = 2
  /\ snd.t0 > 0
  /\ snd.log[1].at > snd.log[1].target
  /\ chan.q[2].delay = 2
  /\ snd.log[2].at = snd.log[2].target
  /\ snd.log[2].at < snd.log[1].at + chan.q[2].delay

\* C14 as claimed: after the datagram with sequence 2^32 - 1 the sender keeps
\* running, and the next datagram has sequence 0.
C14_SeqWraps ==
  \A i \in 1..Len(sent) :
    sent[i].seq = U32Max =>
      /\ sPc # "panic"
      /\ i < Len(sent) => sent[i + 1].seq = U32(0)

\* C15 as claimed, the part on EINTR: client::run does not return an error
\* because a sendmsg was interrupted.
C15_SendEintrKeepsLoop ==
  ~(sPc = "err" /\ snd.err = "EINTR")

\* C16 as claimed, the last part: the server does not leave its receive loop
\* on a datagram shorter than MIN_SIZE - when it is past the loop and its
\* socket was not shut down, the datagram it read last was not a short one.
C16_ShortDatagramSkipped ==
  (srvPc = "post" /\ ~ssock.rd /\ ssock.n > 0)
    => Min(ssock.q[ssock.n].len, BufferSize) >= MIN_SIZE

\* C17 (as amended): with echo = false there is no echo reader and no echo
\* record, and the echo log channel's Sender lives exactly as long as
\* client::run: the consumer sees disconnection only once the sender has
\* returned, and a sender that returned Ok had seen the generator channel end
GeneratorEnded == ~chan.tx /\ chan.rd = Len(chan.q)

C17_EchoOffLogClosesAtReturn ==
  ~cfg.echo =>
    /\ erPc = "none"
    /\ erCount = 0
    /\ clog.q = <<>>
    /\ cout = <<>>
    /\ cfg.logger => (clog.tx <=> ~SenderDone)
    /\ sPc \in {"shutwr", "grace", "shutrd", "join", "ok"} => GeneratorEnded

C17_Witness ==
  /\ ~cfg.echo
  /\ cfg.logger
  /\ sPc = "ok"
  /\ Len(sent) = MaxPkts
  /\ GeneratorEnded
  /\ ~clog.tx
  /\ clog.q = <<>>

\* C17 as stated: with echo = false the echo log channel is closed only after
\* the generator channel has ended
C17_LogClosedOnlyAfterGeneratorEnd ==
  (~cfg.echo /\ cfg.logger /\ sent # <<>> /\ ~clog.tx) => GeneratorEnded

\* C18: iteration over a Client or Server handle delivers the records of the
\* handle's log channel exactly once and in the order of publication; a call
\* of __next__ returns a record when one is queued, does not return while
\* the queue is drained and the producer is alive, and reports the end
\* exactly when the handle has no log (never started) or the producer is
\* dropped and every published record was delivered
NextAsClaimed(h, hn, ch) ==
  /\ hn.nlast \in {"record", "end"}
  /\ ~(h.log /\ h.rd = Len(ch.q) /\ ch.tx)
  /\ (hn.nlast = "end") <=> (~h.log \/ (~ch.tx /\ h.rd = Len(ch.q)))
  /\ (hn.nlast = "record") => (hn.got = Append(h.got, ch.q[h.rd + 1]))

DeliveredPrefix(h, ch) == h.rd <= Len(ch.q) /\ h.got = SubSeq(ch.q, 1, h.rd)

C18_IterationInOrder ==
  /\ [](DeliveredPrefix(py, clog) /\ DeliveredPrefix(psrv, slog))
  /\ [][/\ (py'.nexts # py.nexts) => NextAsClaimed(py, py', clog)
        /\ (psrv'.nexts # psrv.nexts) => NextAsClaimed(psrv, psrv', slog)]_vars

\* a Server handle that delivered two records and then reported the end
C18_Witness ==
  /\ psrv.made
  /\ Len(psrv.got) = 2
  /\ psrv.got = slog.q
  /\ psrv.nlast = "end"
  /\ ~slog.tx

\* the same on a Client handle, and the end on a Client never started
C18_ClientReached ==
  /\ py.made
  /\ Len(py.got) = 2
  /\ py.got = clog.q
  /\ py.nlast = "end"
  /\ ~clog.tx

C18_NeverStartedReached == py.made /\ ~py.log /\ py.nlast = "end"

\* C19: in the CLI server no handler of SIGINT or SIGTERM blocks forever:
\* the innermost handler never waits for the mutex of the CloseHandle while
\* a handler it interrupted holds it
C19_HandlerNeverBlocks ==
  ~(Top > 0 /\ closer[Top].pc = "idle" /\ handle.lock # 0)

\* C20: Generator::Default run with count c, size s and an interval d puts
\* (d, s) on the channel exactly c times and then closes the channel, so
\* that the consumer receives c values and then the end of the stream;
\* without options c is 10, s is MIN_SIZE and d is half a second
RECURSIVE Pow10(_)
Pow10(n) == IF n = 0 THEN 1 ELSE 10 * Pow10(n - 1)

\* the nanoseconds the interval options stand for, whole nanoseconds only
DenotedNsec(iv) ==
  CASE iv.keys = {} -> NsecPerSec \div 2
    [] iv.keys = {"msec"} -> iv.num * 1000000
    [] iv.keys = {"usec"} -> iv.num * 1000
    [] iv.keys = {"nsec"} -> iv.num
    [] OTHER ->
         (IF iv.str.int = <<>> THEN 0 ELSE iv.str.int[1]) * NsecPerSec
         + LET F == iv.str.frac
               Term(k) == IF k <= Len(F) THEN F[k] * Pow10(9 - k) ELSE 0
           IN Term(1) + Term(2) + Term(3) + Term(4) + Term(5)
              + Term(6) + Term(7) + Term(8) + Term(9)

ExpectedData(o) ==
  [delay |-> [sec |-> DenotedNsec(o.interval) \div NsecPerSec,
              nsec |-> DenotedNsec(o.interval) % NsecPerSec],
   size |-> IF o.size.some THEN o.size.v ELSE MIN_SIZE]

ExpectedCount(o) == IF o.count.some THEN o.count.v ELSE 10

C20_DefaultEmitsCountValues ==
  gen.phase \in {"running", "done", "panicked"} =>
    /\ Len(chan.q) <= ExpectedCount(gen.opts)
    /\ \A k \in 1..Len(chan.q) : chan.q[k] = ExpectedData(gen.opts)
    /\ chan.tx <=> gen.phase = "running"
    /\ gen.phase = "done" => Len(chan.q) = ExpectedCount(gen.opts)
    /\ gen.got = SubSeq(chan.q, 1, chan.rd)
    /\ gen.eos => (gen.phase = "done" /\ Len(gen.got) = ExpectedCount(gen.opts))

\* the consumer got the ten default values and then the end of the stream
C20_Witness ==
  /\ gen.phase = "done"
  /\ ~gen.opts.count.some /\ ~gen.opts.size.some /\ gen.opts.interval.keys = {}
  /\ gen.eos
  /\ Len(gen.got) = 10
  /\ \A k \in 1..10 : gen.got[k] = [delay |-> [sec |-> 0, nsec |-> 500000000], size |-> MIN_SIZE]

\* the same with options: count 2, size 32, interval "0.2"
C20_OptionsReached ==
  /\ gen.phase = "done"
  /\ gen.opts.count = Given(2) /\ gen.opts.size = Given(32)
  /\ gen.opts.interval.keys = {"interval"} /\ gen.opts.interval.str = [int |-> <<0>>, frac |-> <<2>>]
  /\ gen.eos
  /\ gen.got = <<[delay |-> [sec |-> 0, nsec |-> 200000000], size |-> 32],
                 [delay |-> [sec |-> 0, nsec |-> 200000000], size |-> 32]>>

\* C21: Generator::Vary emits MIN_SIZE, doubles while below max-size, emits
\* max-size once at the peak, halves back down to MIN_SIZE, emitted once,
\* and repeats, for exactly count values, and then closes the channel
RECURSIVE UpSizes(_, _)
UpSizes(x, max) == IF x < max THEN <<x>> \o UpSizes(2 * x, max) ELSE <<>>

Reverse(q) == [k \in 1..Len(q) |-> q[Len(q) + 1 - k]]

VaryPeriod(max) ==
  IF UpSizes(MIN_SIZE, max) = <<>> THEN <<max>>
  ELSE UpSizes(MIN_SIZE, max) \o <<max>> \o Reverse(Tail(UpSizes(MIN_SIZE, max)))

ExpectedVarySize(max, k) == VaryPeriod(max)[((k - 1) % Len(VaryPeriod(max))) + 1]

Sizes(q) == [k \in 1..Len(q) |-> q[k].size]

VaryCount == IF gen.opts.count.some THEN gen.opts.count.v ELSE 20

C21_VarySizes ==
  gen.phase \in {"running", "done", "panicked"} =>
    /\ Len(chan.q) <= VaryCount
    /\ gen.maxSize >= MIN_SIZE =>
         \A k \in 1..Len(chan.q) : chan.q[k].size = ExpectedVarySize(gen.maxSize, k)
    /\ chan.tx <=> gen.phase = "running"
    /\ gen.phase = "done" => Len(chan.q) = VaryCount
    /\ gen.eos => (gen.phase = "done" /\ Sizes(gen.got) = Sizes(chan.q))
    /\ (gen.opts.maxSize = Given(1500) /\ Len(chan.q) >= 10) =>
         SubSeq(Sizes(chan.q), 1, 10) = <<21, 42, 84, 168, 336, 672, 1344, 1500, 1344, 672>>
    /\ (gen.opts.maxSize = Given(3000) /\ Len(chan.q) = 20) =>
         Sizes(chan.q) = <<21, 42, 84, 168, 336, 672, 1344, 2688, 3000, 2688,
                          1344, 672, 336, 168, 84, 42, 21, 42, 84, 168>>

\* tests::vary: max-size 3000, twenty values received, then the end
C21_Witness ==
  /\ gen.phase = "done"
  /\ gen.opts.maxSize = Given(3000)
  /\ ~gen.opts.count.some
  /\ gen.eos
  /\ Len(gen.got) = 20
  /\ gen.got[9].size = 3000
  /\ gen.got[17].size = MIN_SIZE

\* C22: Generator::Vary run without options emits twenty values with a delay
\* of one millisecond, and the largest size emitted is 1500
C22_VaryDefaults ==
  (gen.phase = "done" /\ gen.opts = [count |-> Absent, maxSize |-> Absent,
                                     interval |-> [keys |-> {}, num |-> 0, str |-> NoStr]]) =>
    /\ Len(chan.q) = 20
    /\ \A k \in 1..Len(chan.q) : chan.q[k].delay = [sec |-> 0, nsec |-> 1000000]
    /\ \A k \in 1..Len(chan.q) : chan.q[k].size <= 1500
    /\ \E k \in 1..Len(chan.q) : chan.q[k].size = 1500

\* C23: with more than one of interval, msec, usec, nsec parse_interval
\* returns an error and Generator::run returns it without a PacketData
\* emitted; with none it returns no interval; with one it returns the
\* interval the option stands for (msec=1, usec=1000, interval=0.001: 1 ms)
OneMilli == [sec |-> 0, nsec |-> 1000000]

C23_OneIntervalKey ==
  /\ Cardinality(gen.opts.interval.keys) > 1 =>
       /\ ~ParseInterval(gen.opts.interval).ok
       /\ gen.phase \in {"new", "error"}
       /\ chan.q = <<>> /\ ~chan.tx
  /\ gen.opts.interval.keys = {} =>
       /\ ParseInterval(gen.opts.interval).ok
       /\ ~ParseInterval(gen.opts.interval).some
       /\ gen.phase # "error"
  /\ Cardinality(gen.opts.interval.keys) = 1 =>
       /\ ParseInterval(gen.opts.interval).ok
       /\ ParseInterval(gen.opts.interval).some
       /\ ParseInterval(gen.opts.interval).t = ExpectedData(gen.opts).delay
       /\ gen.phase # "error"
       /\ gen.phase \in {"running", "done", "panicked"} =>
            gen.delay = ExpectedData(gen.opts).delay
  /\ \A iv \in {[keys |-> {"msec"}, num |-> 1, str |-> NoStr],
                 [keys |-> {"usec"}, num |-> 1000, str |-> NoStr],
                 [keys |-> {"interval"}, num |-> 0, str |-> [int |-> <<0>>, frac |-> <<0, 0, 1>>]]} :
       (gen.opts.interval = iv /\ gen.phase = "running") => gen.delay = OneMilli

\* run returned the error for msec and usec given together
C23_Witness ==
  /\ gen.opts.interval.keys = {"msec", "usec"}
  /\ gen.phase = "error"
  /\ chan.q = <<>>

\* a run with usec=1000 that emits values of 1 ms
C23_OneKeyReached ==
  /\ gen.opts.interval.keys = {"usec"} /\ gen.opts.interval.num = 1000
  /\ gen.phase = "done"
  /\ Len(chan.q) = MaxCount
  /\ chan.q[1].delay = OneMilli

\* C24: parse_timespec of S.F, S a decimal integer and F up to nine digits,
\* is TimeSpec(S, F * 10^(9 - |F|)); an empty S and an empty or absent F
\* count as zero; digits of F after the ninth are dropped; an S that is
\* not a decimal integer gives an error
RECURSIVE DigitsValue(_, _)
DigitsValue(ds, acc) == IF ds = <<>> THEN acc ELSE DigitsValue(Tail(ds), acc * 10 + Head(ds))

AllDigits(cs) == \A k \in 1..Len(cs) : cs[k] \in 0..9

ClaimedNsec(F) ==
  IF Len(F) <= 9 THEN DigitsValue(F, 0) * Pow10(9 - Len(F))
  ELSE DigitsValue(SubSeq(F, 1, 9), 0)

ClaimedSec(S) ==
  IF S # <<>> /\ S[1] = 11 THEN 0 - DigitsValue(Tail(S), 0) ELSE DigitsValue(S, 0)

DecimalInteger(S) ==
  \/ S # <<>> /\ AllDigits(S)
  \/ Len(S) > 1 /\ S[1] = 11 /\ AllDigits(Tail(S))

GivenFraction == IF gen.inp.dot THEN gen.inp.frac ELSE <<>>

C24_ParseTimespec ==
  gen.phase = "parsed" =>
    /\ ((gen.inp.int = <<>> \/ DecimalInteger(gen.inp.int))
         /\ AllDigits(SubSeq(GivenFraction, 1, Min(9, Len(GivenFraction))))) =>
         /\ gen.res.ok
         /\ gen.res.t = [sec |-> ClaimedSec(gen.inp.int), nsec |-> ClaimedNsec(GivenFraction)]
    /\ (gen.inp.int # <<>> /\ ~DecimalInteger(gen.inp.int)) => ~gen.res.ok

\* "12.1234567891" parsed: the tenth digit is dropped
C24_Witness ==
  /\ gen.phase = "parsed"
  /\ gen.inp = [int |-> <<1, 2>>, dot |-> TRUE, frac |-> <<1, 2, 3, 4, 5, 6, 7, 8, 9, 1>>]
  /\ gen.res = [ok |-> TRUE, t |-> [sec |-> 12, nsec |-> 123456789]]

\* "ab.002" parsed: an error
C24_ErrorReached ==
  /\ gen.phase = "parsed"
  /\ gen.inp = [int |-> <<10, 10>>, dot |-> TRUE, frac |-> <<0, 0, 2>>]
  /\ ~gen.res.ok

\* C25: seq written big-endian at bytes 0..4, sec at 4..12, nsec at 12..20
\* and the flags at byte 20 of a buffer of at least MIN_SIZE bytes come
\* back from ReceivedPacket::try_from as the same sequence, seconds,
\* nanoseconds and flags, with size equal to the number of bytes
C25_WireRoundTrip ==
  (wire.pc = "decoded" /\ wire.r.bytes >= MIN_SIZE /\ wire.r.addr /\ wire.r.cmsg) =>
    /\ wire.res.ok
    /\ wire.res.pkt.sequence = wire.seq
    /\ wire.res.pkt.sec = wire.sec
    /\ wire.res.pkt.nsec = wire.nsec
    /\ wire.res.pkt.flags = (IF wire.echo THEN ECHO_FLAG ELSE 0)
    /\ wire.res.pkt.size = Len(wire.r.data)

\* sequence 65538 and a time of distinct bytes decoded from 25 bytes
C25_Witness ==
  /\ wire.pc = "decoded"
  /\ wire.res.ok
  /\ wire.echo
  /\ wire.res.pkt = [size |-> 25, sequence |-> [hi |-> 1, lo |-> 2], sec |-> <<1, 2, 3, 4>>,
                     nsec |-> <<0, 0, 15258, 51711>>, flags |-> ECHO_FLAG]

\* a datagram shorter than MIN_SIZE is refused
C25_TooSmallReached ==
  /\ wire.pc = "decoded"
  /\ wire.r.bytes < MIN_SIZE
  /\ ~wire.res.ok

\* C26 as stated: with_capability(action, cap) does not invoke the action
\* and returns a permission error, the effective set unchanged, if cap is
\* not permitted; otherwise the action runs exactly once, cap is not in
\* the effective set at the return and the caller receives the action's
\* result or error
C26_AsStated ==
  capst.pc = "returned" =>
    IF PrivCap \notin capst.permitted
    THEN capst.runs = 0 /\ capst.out = NotPermitted /\ capst.effective = capst.eff0
    ELSE capst.runs = 1 /\ PrivCap \notin capst.effective /\ capst.out = capst.ret

\* C26: the above whenever has_cap, raise and drop succeed; when has_cap
\* or raise fails the action is not invoked, the effective set is
\* unchanged and that error is returned; when drop fails the action has
\* run once and the error of drop is returned in place of its result
C26_WithCapability ==
  capst.pc = "returned" =>
    CASE capst.failed = "none" /\ PrivCap \notin capst.permitted ->
           capst.runs = 0 /\ capst.out = NotPermitted /\ capst.effective = capst.eff0
      [] capst.failed = "none" /\ PrivCap \in capst.permitted ->
           capst.runs = 1 /\ PrivCap \notin capst.effective /\ capst.out = capst.ret
      [] capst.failed \in {"has_cap", "raise"} ->
           capst.runs = 0 /\ capst.out = CapsError /\ capst.effective = capst.eff0
      [] capst.failed = "drop" ->
           capst.runs = 1 /\ capst.out = CapsError

\* mlockall has failed under a permitted CAP_IPC_LOCK that was not
\* effective before: its error is returned and the capability is dropped
C26_Witness ==
  /\ capst.pc = "returned"
  /\ capst.step = 2
  /\ capst.failed = "none"
  /\ capst.runs = 1
  /\ capst.eff0 = {}
  /\ capst.effective = {}
  /\ ~capst.out.ok
  /\ capst.out = capst.ret

\* a capability absent from the permitted set
C26_NotPermittedReached ==
  /\ capst.pc = "returned"
  /\ capst.failed = "none"
  /\ PrivCap \notin capst.permitted
  /\ capst.out = NotPermitted

\* C27: in Server::run every permission-denied failure of a privileged
\* step, from the absent capability or from set_rt_prio or mlockall, is a
\* warning and run goes on to the receive loop; every other error of the
\* steps makes run return it (outs are the results of the steps, warned
\* the steps whose error was printed, rejected the step whose error run
\* returned)
PermissionFailure(o) == ~o.ok /\ o.kind = "PermissionDenied"

C27_PermissionDeniedIsWarning ==
  \A k \in 1..Len(capst.outs) :
    /\ PermissionFailure(capst.outs[k]) => (k \in capst.warned /\ capst.rejected # k)
    /\ (~capst.outs[k].ok /\ ~PermissionFailure(capst.outs[k])) =>
         (capst.rejected = k /\ srvPc = "ret" /\ srvRes = "setup_error")

\* C28: the channel from the generator to the sender is bounded: the
\* values emitted and not yet received never exceed a fixed capacity, a
\* generator ahead of the sender waits.  The capacity is taken as large
\* as it can be without holding a whole default run of ten values.
HandOffCapacity == DefaultCount - 1

HandOffBacklog == Len(chan.q) - chan.rd

C28_HandOffBounded ==
  gen.phase \in {"running", "done", "panicked"} => HandOffBacklog <= HandOffCapacity

\* C29: when the echo reader leaves its loop on a receive of zero bytes,
\* the sender has already shut the socket down for reads: no datagram
\* from the network, of whatever length, ends the reader while the sender
\* is sending or waiting for late echoes
ZeroBytesReceived ==
  IF Pending(csock) THEN Min(NextDatagram(csock).len, BufferSize) = 0 ELSE csock.rd

C29_ZeroBytesOnlyAfterShutdown ==
  [][(erPc = "recv" /\ erPc' = "done" /\ ZeroBytesReceived) => csock.rd]_vars

\* C30: start() calls made together on one Server are serialised: at most
\* one passes the already-running check, binds and spawns a server
\* thread, the others return the already-running error, and the stored
\* close handle, join handle and log channel belong to that one thread
C30_StartSerialised ==
  /\ Cardinality(starters.passed) <= 1
  /\ Cardinality(starters.spawned) <= 1
  /\ \A t \in Starters : starters.res[t] \in {"none", "ok", "EISCONN"}
  /\ (\A t \in Starters : starters.pc[t] = "ret") =>
       (starters.handle = starters.running /\ starters.running = starters.log)

\* C31: closing the generator side drains before it stops: every
\* PacketData put into the channel before it was closed has been
\* transmitted when the sender shuts the socket down for writes, and
\* after close() the sender thread terminates, so that join() returns
HandOffDrained == ~chan.tx /\ chan.rd = Len(chan.q) /\ Len(sent) = Len(chan.q)

C31_CloseDrains ==
  /\ [](csock.wr => HandOffDrained)
  /\ [](sPc = "ok" => HandOffDrained)
  /\ (py.running /\ ~chan.tx) ~> SenderDone

\* start, put, close and join have returned: the value was transmitted
\* and the thread has returned Ok
C31_Witness ==
  /\ py.last = [call |-> "join", result |-> "ok"]
  /\ ~py.running
  /\ sPc = "ok"
  /\ Len(chan.q) > 0
  /\ Len(sent) = Len(chan.q)

\* C32: a failure of the echo reader does not fail the sender: when the
\* echo reader has panicked or returned an error, at whatever point, the
\* sender still transmits every PacketData, shuts the socket down for
\* writes and for reads, joins the reader and client::run returns Ok
EchoReaderFailed == erPc \in {"err", "panic"}

C32_EchoFailureIsolated ==
  /\ [](EchoReaderFailed => sPc \notin {"err", "panic"})
  /\ EchoReaderFailed ~> (sPc = "ok" /\ HandOffDrained /\ csock.wr /\ csock.rd)

\* the echo reader failed while the sender was waiting for its first
\* value, and run has returned Ok with two datagrams sent
C32_Witness ==
  /\ EchoReaderFailed
  /\ sPc = "ok"
  /\ Len(sent) = 2
  /\ csock.wr
  /\ csock.rd

\* C33: for every max-size and every count, each size Generator::Vary
\* emits lies between MIN_SIZE and max-size inclusive
C33_VarySizesInRange ==
  gen.phase \in {"running", "done", "panicked"} =>
    \A k \in 1..Len(chan.q) : MIN_SIZE <= chan.q[k].size /\ chan.q[k].size <= gen.maxSize

\* C34: a CloseHandle never issues a shutdown on a descriptor its Server
\* no longer owns: whenever close() performs the shutdown call, the socket
\* of the bind() that made the handle is still open, also when the server
\* thread has left run() and dropped the Server before
ShutdownIssued ==
  \E t \in Closers : closer[t].pc = "taken" /\ closer[t].taken /\ closer'[t].pc = "done"

C34_ShutdownOnOwnedSocket ==
  [][ShutdownIssued => ssock.state = "open"]_vars

\* C35: on every path by which client::run returns with echo=true, the
\* normal one and the error returns alike, the echo reader has terminated
\* before the descriptor it reads from is closed
C35_ReaderEndsBeforeSocketCloses ==
  [][(cfg.echo /\ csock.state = "open" /\ csock'.state = "closed") => erPc # "recv"]_vars

\* C36: Client.put() returns success only when the PacketData has been
\* handed to a live sender: with the sender thread of the current run
\* terminated, or the Receiver of the generator channel gone, put()
\* returns an error (generator = "live": the Sender stored by the start()
\* of the current run)
PutReturnedOk ==
  /\ py'.calls = py.calls + 1
  /\ py'.last = [call |-> "put", result |-> "ok"]

C36_PutOkMeansHandedOver ==
  [][(PutReturnedOk /\ py.generator = "live") =>
       (chan.rx /\ ~SenderDone /\ Len(chan'.q) = Len(chan.q) + 1)]_vars

====
